---- MODULE Spec2Model ----
(***************************************************************************)
(* Model of the statistical aggregation engine of the trading journal     *)
(* (src/services/analysisService.ts) and of the application state around  *)
(* it (App, DataManagement, TradeForm).                                    *)
(*                                                                         *)
(* Representation.                                                         *)
(*  - A JavaScript string is the sequence of its UTF-16 code units, so     *)
(*    that Array.prototype.sort() without comparator (code-unit order)     *)
(*    and template-string concatenation (`${p1}|${p2}`) are computed and   *)
(*    not assumed.                                                         *)
(*  - An optional or possibly-empty field is Nothing (<<>>) or Some(s).    *)
(*  - A JavaScript Map or Set is the sequence of its entries in insertion  *)
(*    order, which is the order forEach visits them in.                    *)
(*  - A number that results from a division is an exact fraction <<n, d>>  *)
(*    in lowest terms (d > 0); MFE/MAE inputs are whole numbers of a       *)
(*    fixed unit.  Floating-point rounding is not modelled.                *)
(***************************************************************************)
EXTENDS Integers, Sequences, FiniteSets, TLC

\* trades, arg: the input of a core function; fn: the function called
\* ("none" before the call); out: its result.
\* allTrades, selectedStrategies, view, editingTrade, hasDraft: the state of
\* App; draft: the item 'forwardtest_draft_trade' of localStorage;
\* tradeForm: the state of the mounted TradeForm; notePromises: the submits
\* that wait for their note; parsing: the CSV files being parsed, each with
\* the journal its handler saw; uuids: the ids uuidv4() has handed out;
\* events: the events handled so far.
VARIABLES trades, arg, fn, out,
          allTrades, selectedStrategies, view, editingTrade, hasDraft,
          draft, tradeForm, notePromises, parsing, uuids, events

coreVars == <<trades, arg, fn, out>>

appVars ==
  <<allTrades, selectedStrategies, view, editingTrade, hasDraft,
    draft, tradeForm, notePromises, parsing, uuids, events>>

vars == <<coreVars, appVars>>

(***************************************************************************)
(* Bounds of the model                                                     *)
(***************************************************************************)
MaxInputSize == 6
MaxTrades == 3
MaxHeatTrades == 2
MaxGroup == 4
MaxMfe == 4
MaxMinute == 1439
MaxDelta == 25
DeltaScale == 2
MaxOiTrades == 4
MaxFinderTrades == 5
MaxCoreTrades == 3
MaxDuration == 125
DurationScale == 2

(***************************************************************************)
(* Strings                                                                 *)
(***************************************************************************)
None == <<78, 111, 110, 101>>
Empty == <<>>
NA == <<78, 47, 65>>
S1 == <<83, 49>>
S2 == <<83, 50>>
S3 == <<83, 51>>
S4 == <<83, 52>>
IS4 == <<73, 83, 52>>
HIGH_PLUS == <<72, 105, 103, 104, 43, 43>>
HIGH == <<72, 105, 103, 104>>
LOW == <<76, 111, 119>>
T1 == <<84, 49>>
T2 == <<84, 50>>
Bar == <<124>>
ColonColon == <<58, 58>>
Dash == <<45>>
LetterM == <<109>>
LetterHSpace == <<104, 32>>

\* level names used as inputs: "A", "B", "C", "A|B", "B|C", "A::B", "B::C"
LvA == <<65>>
LvB == <<66>>
LvC == <<67>>
LvAbarB == <<65, 124, 66>>
LvBbarC == <<66, 124, 67>>
LvAccB == <<65, 58, 58, 66>>
TypeC == <<67>>
TypeBccC == <<66, 58, 58, 67>>

Nothing == <<>>
Some(s) == <<s>>

\* a || b on an optional string: undefined and '' are falsy
OrElse(opt, dflt) == IF opt = Nothing \/ opt[1] = Empty THEN dflt ELSE opt[1]

\* code-unit comparison of two strings, as the default sort compares them
RECURSIVE StrLess(_, _)
StrLess(a, b) ==
  IF b = <<>> THEN FALSE
  ELSE IF a = <<>> THEN TRUE
  ELSE IF a[1] # b[1] THEN a[1] < b[1]
  ELSE StrLess(Tail(a), Tail(b))

(***************************************************************************)
(* Arithmetic on exact fractions                                           *)
(***************************************************************************)
RECURSIVE GCD(_, _)
GCD(a, b) == IF b = 0 THEN a ELSE GCD(b, a % b)

Abs(x) == IF x < 0 THEN -x ELSE x

\* n / d, d > 0
Div(n, d) == LET g == GCD(Abs(n), d) IN IF g = 0 THEN <<0, 1>> ELSE <<n \div g, d \div g>>

Sub(p, q) == Div(p[1] * q[2] - q[1] * p[2], p[2] * q[2])

Less(p, q) == p[1] * q[2] < q[1] * p[2]

FromInt(n) == <<n, 1>>

Mul(p, q) == Div(p[1] * q[1], p[2] * q[2])

\* Math.floor
Floor(p) == p[1] \div p[2]

\* Math.round: the nearest integer, a half rounds up
Round(p) == (2 * p[1] + p[2]) \div (2 * p[2])

\* p % m for an integer m > 0: the remainder has the sign of p
Rem(p, m) ==
  IF p[1] >= 0 THEN Div(p[1] % (m * p[2]), p[2])
  ELSE Div(-((-p[1]) % (m * p[2])), p[2])

\* Math.max(0, p)
Max0(p) == IF Less(p, FromInt(0)) THEN FromInt(0) ELSE p

\* the decimal digits of an integer, as a template string prints it
RECURSIVE NumberToString(_)
NumberToString(n) ==
  IF n < 0 THEN <<45>> \o NumberToString(-n)
  ELSE IF n < 10 THEN <<48 + n>>
  ELSE NumberToString(n \div 10) \o <<48 + (n % 10)>>

(***************************************************************************)
(* Arrays                                                                  *)
(***************************************************************************)
Range(s) == {s[i] : i \in 1..Len(s)}

\* Array.prototype.indexOf, counted from 1: 0 when x is not in s
IndexOf(s, x) ==
  IF x \in Range(s) THEN CHOOSE i \in 1..Len(s) : s[i] = x /\ \A j \in 1..(i - 1) : s[j] # x
  ELSE 0

\* new Set(array) / Set.add: first occurrences, in order
RECURSIVE Dedup(_)
Dedup(s) ==
  IF s = <<>> THEN <<>>
  ELSE LET front == Dedup(SubSeq(s, 1, Len(s) - 1))
           last == s[Len(s)]
       IN IF last \in Range(front) THEN front ELSE Append(front, last)

\* x put into the array s in front of the first of the positions `later`, or
\* at the end when there is none
Insert(s, x, later) ==
  LET k == IF later = {} THEN Len(s) + 1 ELSE CHOOSE i \in later : \A j \in later : i <= j
  IN SubSeq(s, 1, k - 1) \o <<x>> \o SubSeq(s, k, Len(s))

\* Array.prototype.sort(compare): a stable sort; before[<<a, b>>] iff
\* compare(a, b) < 0.  Each element goes in front of the first one it is before.
Sort(s, before) ==
  LET sorted[i \in 0..Len(s)] ==
        IF i = 0 THEN <<>>
        ELSE LET prev == sorted[i - 1]
             IN Insert(prev, s[i], {k \in 1..Len(prev) : before[<<s[i], prev[k]>>]})
  IN sorted[Len(s)]

\* the pairs of elements of s a comparator is asked about
Pairs(s) == Range(s) \X Range(s)

\* values.reduce((a, b) => a + b, 0)
Sum(s) ==
  LET total[i \in 0..Len(s)] == IF i = 0 THEN 0 ELSE total[i - 1] + s[i]
  IN total[Len(s)]

(***************************************************************************)
(* Map                                                                     *)
(***************************************************************************)
MapHas(m, k) == \E i \in 1..Len(m) : m[i].key = k

MapIndex(m, k) == CHOOSE i \in 1..Len(m) : m[i].key = k

MapGet(m, k) == m[MapIndex(m, k)].val

\* Map.set: an existing key keeps its place, a new key goes last
MapSet(m, k, v) ==
  IF MapHas(m, k) THEN [m EXCEPT ![MapIndex(m, k)] = [key |-> k, val |-> v]]
  ELSE Append(m, [key |-> k, val |-> v])

(***************************************************************************)
(* Helpers of analysisService.ts                                           *)
(***************************************************************************)
\* mutant: the sign of the delta is kept
getDeltaCategory_Signed(delta) ==
  IF Less(FromInt(20), delta) THEN HIGH_PLUS
  ELSE IF Less(FromInt(7), delta) THEN HIGH
  ELSE LOW

\* A delta is a fraction; absDelta > 20, absDelta > 7
getDeltaCategory(delta) ==
  LET absDelta == <<Abs(delta[1]), delta[2]>>
  IN IF Less(FromInt(20), absDelta) THEN HIGH_PLUS
     ELSE IF Less(FromInt(7), absDelta) THEN HIGH
     ELSE LOW

\* new Date(dateStr).getHours(): dateStr denotes an instant (minutes since the
\* epoch) and the hour is read in the local time zone (offset in minutes)
getHours(dateStr) == ((dateStr.time + dateStr.tz) \div 60) % 24

\* mutant: the IS4 hours are tested after the S4 hours, which take them all
getSessionFromTime_NoIS4(dateStr) ==
  LET hour == getHours(dateStr)
  IN IF hour >= 5 /\ hour < 11 THEN S1
     ELSE IF hour >= 11 /\ hour < 17 THEN S2
     ELSE IF hour >= 17 /\ hour < 23 THEN S3
     ELSE S4

getSessionFromTime(dateStr) ==
  LET hour == getHours(dateStr)
  IN IF hour >= 5 /\ hour < 11 THEN S1
     ELSE IF hour >= 11 /\ hour < 17 THEN S2
     ELSE IF hour >= 17 /\ hour < 23 THEN S3
     ELSE IF hour >= 1 /\ hour < 5 THEN IS4
     ELSE S4

\* mutant: the copy is not sorted
SortAscending_Unsorted(values) == values

\* [...values].sort((a, b) => a - b)
SortAscending(values) == Sort(values, [p \in Pairs(values) |-> p[1] < p[2]])

calculateMedian(values) ==
  IF Len(values) = 0 THEN FromInt(0)
  ELSE LET sorted == SortAscending(values)
           mid == Len(sorted) \div 2
       IN IF Len(sorted) % 2 # 0 THEN FromInt(sorted[mid + 1])
          ELSE Div(sorted[mid] + sorted[mid + 1], 2)

\* new Date(dateStr).getTime(): the instant in milliseconds
getTime(dateStr) == (dateStr.time * 60 + dateStr.sec) * 1000

\* !exitTime: the argument is absent or ''
IsFalsy(opt) == opt = Nothing \/ DOMAIN opt[1] = {}

\* the same without Math.max
calculateDuration_NoClamp(entryTime, exitTime) ==
  IF IsFalsy(exitTime) THEN FromInt(0)
  ELSE Div(getTime(exitTime[1]) - getTime(entryTime), 1000 * 60)

calculateDuration(entryTime, exitTime) ==
  IF IsFalsy(exitTime) THEN FromInt(0)
  ELSE LET start == getTime(entryTime)
           end == getTime(exitTime[1])
       IN Max0(Div(end - start, 1000 * 60))

formatDuration(minutes) ==
  IF minutes = FromInt(0) THEN Dash
  ELSE IF Less(minutes, FromInt(60)) THEN NumberToString(Round(minutes)) \o LetterM
  ELSE LET hours == Floor(Div(minutes[1], 60 * minutes[2]))
           mins == Round(Rem(minutes, 60))
       IN NumberToString(hours) \o LetterHSpace \o NumberToString(mins) \o LetterM

\* The input list after getOIPercentileValue: map() returns a new array and
\* sort() orders that array in place, so the list of trades is as before.
TradesAfterPercentile(ts) == ts

\* trades.map((t) => t.oi)
OiValues(ts) == [i \in 1..Len(ts) |-> ts[i].oi]

\* the same with the rank ceil(percentile / 100 * n) - 1
getOIPercentileValue_CeilRank(ts, percentile) ==
  IF Len(ts) = 0 THEN 0
  ELSE LET ois == SortAscending(OiValues(ts))
           rank == -Floor(Mul(Div(-percentile, 100), FromInt(Len(ois))))
           index == IF rank = 0 THEN 0 ELSE rank - 1
       IN ois[index + 1]

\* arrays are indexed from 0 in the code and from 1 here
getOIPercentileValue(ts, percentile) ==
  IF Len(ts) = 0 THEN 0
  ELSE LET ois == SortAscending(OiValues(ts))
           index == Floor(Mul(Div(percentile, 100), FromInt(Len(ois))))
       IN ois[(IF index < Len(ois) - 1 THEN index ELSE Len(ois) - 1) + 1]

\* trade.taLevels.filter((l) => l !== 'None' && l !== '')
ActiveSlots(trade) == SelectSeq(trade.taLevels, LAMBDA l : l # None /\ l # Empty)

(***************************************************************************)
(* Single-factor and session statistics                                    *)
(***************************************************************************)
\* statsMap.get(key) || { mfes: [], maes: [] }; push; statsMap.set(key, current)
PushStats(statsMap, key, trade) ==
  LET current == IF MapHas(statsMap, key) THEN MapGet(statsMap, key)
                 ELSE [mfes |-> <<>>, maes |-> <<>>]
  IN MapSet(statsMap, key, [mfes |-> Append(current.mfes, trade.mfe),
                            maes |-> Append(current.maes, trade.mae)])

\* mutant: the score subtracts the wrong way round
StatsRow_ScoreReversed(entry) ==
  LET count == Len(entry.val.mfes)
      totalMfe == Sum(entry.val.mfes)
      totalMae == Sum(entry.val.maes)
  IN [level |-> entry.key,
      avgMfe |-> Div(totalMfe, count),
      avgMae |-> Div(totalMae, count),
      medianMfe |-> calculateMedian(entry.val.mfes),
      medianMae |-> calculateMedian(entry.val.maes),
      count |-> count,
      score |-> Sub(Div(totalMae, count), Div(totalMfe, count))]

\* one AnalysisResult per entry of statsMap, in the map's order
StatsRow(entry) ==
  LET count == Len(entry.val.mfes)
      totalMfe == Sum(entry.val.mfes)
      totalMae == Sum(entry.val.maes)
  IN [level |-> entry.key,
      avgMfe |-> Div(totalMfe, count),
      avgMae |-> Div(totalMae, count),
      medianMfe |-> calculateMedian(entry.val.mfes),
      medianMae |-> calculateMedian(entry.val.maes),
      count |-> count,
      score |-> Sub(Div(totalMfe, count), Div(totalMae, count))]

\* mutant: the comparator sorts ascending
SortByAvgMfe_Ascending(results) ==
  Sort(results, [p \in Pairs(results) |-> Less(p[1].avgMfe, p[2].avgMfe)])

\* results.sort((a, b) => b.avgMfe - a.avgMfe)
\* the same with a comparator that puts a later row in front of its equals
SortByAvgMfeDesc_TiesReversed(results) ==
  Sort(results, [p \in Pairs(results) |-> ~Less(p[1].avgMfe, p[2].avgMfe)])

SortByAvgMfeDesc(results) ==
  Sort(results, [p \in Pairs(results) |-> Less(p[2].avgMfe, p[1].avgMfe)])

\* mutant: the active slots are not made a Set
UniqueLevels_NoSet(trade) == ActiveSlots(trade)

\* new Set(trade.taLevels.filter(...))
UniqueLevels(trade) == Dedup(ActiveSlots(trade))

\* uniqueLevels.forEach: the trade pushed to the group of each of the levels
PushLevels(statsMap, levels, trade) ==
  LET m[j \in 0..Len(levels)] ==
        IF j = 0 THEN statsMap ELSE PushStats(m[j - 1], levels[j], trade)
  IN m[Len(levels)]

\* trades.forEach
SingleFactorMap(ts) ==
  LET m[i \in 0..Len(ts)] ==
        IF i = 0 THEN <<>> ELSE PushLevels(m[i - 1], UniqueLevels(ts[i]), ts[i])
  IN m[Len(ts)]

\* statsMap.forEach: one row per entry, in the map's order
StatsRows(statsMap) == [i \in 1..Len(statsMap) |-> StatsRow(statsMap[i])]

calculateSingleFactorStats(ts) == SortByAvgMfeDesc(StatsRows(SingleFactorMap(ts)))

\* The predicates a caller passes as conditionFn: the two of the dashboard and
\* one that accepts every trade.
conditionFn(name, t, threshold) ==
  LET cat == getDeltaCategory(t.delta)
  IN CASE name = "bestHighDeltaHighOI" -> (cat = HIGH \/ cat = HIGH_PLUS) /\ t.oi > threshold
       [] name = "bestLowDeltaLowOI" -> cat = LOW /\ t.oi <= threshold
       [] name = "acceptAll" -> TRUE

\* the same with the threshold taken over the trades up to the one tested
ConditionCalls_Prefix(ts) ==
  [i \in 1..Len(ts) |->
     [trade |-> ts[i], oiThreshold |-> getOIPercentileValue(SubSeq(ts, 1, i), 75)]]

\* const oiThreshold = getOIPercentileValue(trades, 75); the calls
\* conditionFn(t, oiThreshold) of trades.filter, in order
ConditionCalls(ts) ==
  LET oiThreshold == getOIPercentileValue(ts, 75)
  IN [i \in 1..Len(ts) |-> [trade |-> ts[i], oiThreshold |-> oiThreshold]]

\* the same without the filter: every trade is kept
FilteredTrades_Unfiltered(ts, name) == ts

\* trades.filter(t => conditionFn(t, oiThreshold))
FilteredTrades(ts, name) ==
  LET calls == ConditionCalls(ts)
      kept == SelectSeq(calls, LAMBDA c : conditionFn(name, c.trade, c.oiThreshold))
  IN [k \in 1..Len(kept) |-> kept[k].trade]

\* the result is null (Nothing) or a row (Some)
getBestLevelForCondition(ts, name) ==
  IF Len(ts) = 0 THEN Nothing
  ELSE LET filteredTrades == FilteredTrades(ts, name)
           stats == calculateSingleFactorStats(filteredTrades)
       IN IF Len(filteredTrades) = 0 THEN Nothing
          ELSE IF Len(stats) > 0 THEN Some(stats[1]) ELSE Nothing

SessionOrder == <<S1, S2, S3, S4, IS4, NA>>

\* the same without the 'N/A' default: an unset session is keyed by ''
SessionMap_NoDefault(ts) ==
  LET m[i \in 0..Len(ts)] ==
        IF i = 0 THEN <<>>
        ELSE PushStats(m[i - 1],
                       IF ts[i].session = Nothing THEN Empty ELSE ts[i].session[1], ts[i])
  IN m[Len(ts)]

\* trades.forEach: const session = trade.session || 'N/A'
SessionMap(ts) ==
  LET m[i \in 0..Len(ts)] ==
        IF i = 0 THEN <<>> ELSE PushStats(m[i - 1], OrElse(ts[i].session, NA), ts[i])
  IN m[Len(ts)]

\* results.sort((a, b) => order.indexOf(a.level) - order.indexOf(b.level));
\* indexOf is -1 for a label that is not in the list
SortBySessionOrder_ByAvgMfe(results) == SortByAvgMfeDesc(results)

SortBySessionOrder(results) ==
  Sort(results, [p \in Pairs(results) |->
                  IndexOf(SessionOrder, p[1].level) < IndexOf(SessionOrder, p[2].level)])

calculateSessionStats(ts) == SortBySessionOrder(StatsRows(SessionMap(ts)))

(***************************************************************************)
(* Pair statistics                                                         *)
(***************************************************************************)
\* trade.taLevels.filter(...).sort()
SortedActiveLevels(trade) ==
  Sort(ActiveSlots(trade), [p \in Pairs(ActiveSlots(trade)) |-> StrLess(p[1], p[2])])

PairKey(p1, p2) == p1 \o Bar \o p2

\* the (i, j) index pairs of the two nested loops, in the order they run
LoopPairs(n) ==
  LET upTo[i \in 0..n] ==
        IF i = 0 THEN <<>> ELSE upTo[i - 1] \o [k \in 1..(n - i) |-> <<i, i + k>>]
  IN upTo[n]

\* the pairs [p1, p2] one trade adds, in the order the loops visit them
TradePairs(trade) ==
  LET activeLevels == SortedActiveLevels(trade)
      loop == LoopPairs(Len(activeLevels))
  IN [k \in 1..Len(loop) |-> <<activeLevels[loop[k][1]], activeLevels[loop[k][2]]>>]

AddPair(pairMap, p1, p2, trade) ==
  LET key == PairKey(p1, p2)
      current == IF MapHas(pairMap, key) THEN MapGet(pairMap, key)
                 ELSE [totalMfe |-> 0, count |-> 0, p1 |-> p1, p2 |-> p2]
  IN MapSet(pairMap, key, [totalMfe |-> current.totalMfe + trade.mfe,
                           count |-> current.count + 1,
                           p1 |-> p1, p2 |-> p2])

\* the two loops over one trade
AddPairs(pairMap, pairs, trade) ==
  LET m[k \in 0..Len(pairs)] ==
        IF k = 0 THEN pairMap ELSE AddPair(m[k - 1], pairs[k][1], pairs[k][2], trade)
  IN m[Len(pairs)]

\* trades.forEach
PairMap(ts) ==
  LET m[i \in 0..Len(ts)] ==
        IF i = 0 THEN <<>> ELSE AddPairs(m[i - 1], TradePairs(ts[i]), ts[i])
  IN m[Len(ts)]

PairRow(entry) ==
  [pair |-> <<entry.val.p1, entry.val.p2>>,
   avgMfe |-> Div(entry.val.totalMfe, entry.val.count),
   count |-> entry.val.count]

\* pairMap.forEach: one row per entry, in the map's order
PairRows(pairMap) == [i \in 1..Len(pairMap) |-> PairRow(pairMap[i])]

\* results.filter(r => r.count >= 2)
AtLeastTwo(results) == SelectSeq(results, LAMBDA r : r.count >= 2)

calculatePairStats(ts) == SortByAvgMfeDesc(AtLeastTwo(PairRows(PairMap(ts))))

\* the same with sort() called on the trade's own array
SlotsAfterPairStats_SortInPlace(trade) ==
  Sort(trade.taLevels, [p \in Pairs(trade.taLevels) |-> StrLess(p[1], p[2])])

\* The slots of a trade after calculatePairStats: filter() returns a new array
\* and sort() orders that array in place, so the trade's own array is as before.
SlotsAfterPairStats(trade) == trade.taLevels

\* the input list after calculatePairStats
TradesAfterPairStats(ts) ==
  [i \in 1..Len(ts) |-> [ts[i] EXCEPT !.taLevels = SlotsAfterPairStats(ts[i])]]

(***************************************************************************)
(* Heatmaps                                                                *)
(***************************************************************************)
\* Set.add
SetAdd(set, x) == IF x \in Range(set) THEN set ELSE Append(set, x)

CellKey(level, x) == level \o ColonColon \o x

\* matrix.get(key) || { totalMfe: 0, count: 0 }; matrix.set(key, ...)
AddCell(matrix, level, x, trade) ==
  LET key == CellKey(level, x)
      current == IF MapHas(matrix, key) THEN MapGet(matrix, key)
                 ELSE [totalMfe |-> 0, count |-> 0]
  IN MapSet(matrix, key, [totalMfe |-> current.totalMfe + trade.mfe,
                          count |-> current.count + 1])

\* the same with xSet.add(x) inside the loop over the active slots
AddTradeToHeatmap_XInsideLoop(acc, trade, x) ==
  LET levels == ActiveSlots(trade)
      a[j \in 0..Len(levels)] ==
        IF j = 0 THEN acc
        ELSE [a[j - 1] EXCEPT !.xSet = SetAdd(a[j - 1].xSet, x),
                              !.levelSet = SetAdd(a[j - 1].levelSet, levels[j]),
                              !.matrix = AddCell(a[j - 1].matrix, levels[j], x, trade)]
  IN a[Len(levels)]

\* one trade of category x: xSet.add(x); for each active slot, levelSet.add
\* and the cell update
AddTradeToHeatmap(acc, trade, x) ==
  LET levels == ActiveSlots(trade)
      a[j \in 0..Len(levels)] ==
        IF j = 0 THEN [acc EXCEPT !.xSet = SetAdd(acc.xSet, x)]
        ELSE [a[j - 1] EXCEPT !.levelSet = SetAdd(a[j - 1].levelSet, levels[j]),
                              !.matrix = AddCell(a[j - 1].matrix, levels[j], x, trade)]
  IN a[Len(levels)]

EmptyHeatmap == [levelSet |-> <<>>, xSet |-> <<>>, matrix |-> <<>>]

\* grid.set(key, { avgMfe: avg, count: val.count })
Grid(matrix) ==
  [i \in 1..Len(matrix) |->
     [key |-> matrix[i].key,
      val |-> [avgMfe |-> Div(matrix[i].val.totalMfe, matrix[i].val.count),
               count |-> matrix[i].val.count]]]

\* the same with maxMfe starting below every average
MaxAvg_StartBelow(matrix) ==
  LET maxMfe[i \in 0..Len(matrix)] ==
        IF i = 0 THEN FromInt(-1)
        ELSE LET avg == Div(matrix[i].val.totalMfe, matrix[i].val.count)
             IN IF Less(maxMfe[i - 1], avg) THEN avg ELSE maxMfe[i - 1]
  IN maxMfe[Len(matrix)]

\* the same without the comparison: the average of the last cell
MaxAvg_LastCell(matrix) ==
  IF Len(matrix) = 0 THEN FromInt(0)
  ELSE Div(matrix[Len(matrix)].val.totalMfe, matrix[Len(matrix)].val.count)

\* let maxMfe = 0; if (avg > maxMfe) maxMfe = avg
MaxAvg(matrix) ==
  LET maxMfe[i \in 0..Len(matrix)] ==
        IF i = 0 THEN FromInt(0)
        ELSE LET avg == Div(matrix[i].val.totalMfe, matrix[i].val.count)
             IN IF Less(maxMfe[i - 1], avg) THEN avg ELSE maxMfe[i - 1]
  IN maxMfe[Len(matrix)]

\* Array.from(set).sort()
SortLexicographic(labels) == Sort(labels, [p \in Pairs(labels) |-> StrLess(p[1], p[2])])

\* the same without the sort: the set's insertion order
SortByOrder_Insertion(labels, order) == labels

\* Array.from(set).sort((a, b) => order.indexOf(a) - order.indexOf(b))
SortByOrder(labels, order) ==
  Sort(labels, [p \in Pairs(labels) |-> IndexOf(order, p[1]) < IndexOf(order, p[2])])

HeatmapData(acc, sortedX) ==
  [xLabels |-> sortedX,
   yLabels |-> SortLexicographic(acc.levelSet),
   grid |-> Grid(acc.matrix),
   maxMfe |-> MaxAvg(acc.matrix)]

\* the same with a sentinel column instead of the early return
EntryTypeAccumulator_Sentinel(ts) ==
  LET a[i \in 0..Len(ts)] ==
        IF i = 0 THEN EmptyHeatmap
        ELSE AddTradeToHeatmap(a[i - 1], ts[i], OrElse(ts[i].entryType, NA))
  IN a[Len(ts)]

\* trades.forEach of calculateHeatmapStats: a trade without entry type is skipped
EntryTypeAccumulator(ts) ==
  LET a[i \in 0..Len(ts)] ==
        IF i = 0 THEN EmptyHeatmap
        ELSE IF ts[i].entryType = Nothing \/ ts[i].entryType[1] = Empty THEN a[i - 1]
        ELSE AddTradeToHeatmap(a[i - 1], ts[i], ts[i].entryType[1])
  IN a[Len(ts)]

calculateHeatmapStats(ts) ==
  HeatmapData(EntryTypeAccumulator(ts), SortLexicographic(EntryTypeAccumulator(ts).xSet))

\* trades.forEach of calculateSessionLevelHeatmap
SessionAccumulator(ts) ==
  LET a[i \in 0..Len(ts)] ==
        IF i = 0 THEN EmptyHeatmap
        ELSE AddTradeToHeatmap(a[i - 1], ts[i], OrElse(ts[i].session, NA))
  IN a[Len(ts)]

calculateSessionLevelHeatmap(ts) ==
  HeatmapData(SessionAccumulator(ts), SortByOrder(SessionAccumulator(ts).xSet, SessionOrder))

DeltaOrder == <<HIGH_PLUS, HIGH, LOW>>

\* trades.forEach of calculateDeltaLevelHeatmap
DeltaAccumulator(ts) ==
  LET a[i \in 0..Len(ts)] ==
        IF i = 0 THEN EmptyHeatmap
        ELSE AddTradeToHeatmap(a[i - 1], ts[i], getDeltaCategory(ts[i].delta))
  IN a[Len(ts)]

calculateDeltaLevelHeatmap(ts) ==
  HeatmapData(DeltaAccumulator(ts), SortByOrder(DeltaAccumulator(ts).xSet, DeltaOrder))

(***************************************************************************)
(* Inputs                                                                  *)
(***************************************************************************)
Trade(levels, mfe, mae, session, entryType, delta, oi) ==
  [taLevels |-> levels, mfe |-> mfe, mae |-> mae, session |-> session,
   entryType |-> entryType, delta |-> delta, oi |-> oi]

NoArg == [kind |-> "none"]

\* Slot family: every list whose number of trades plus number of slots is at
\* most MaxInputSize; a slot holds a level, 'None' or ''.
SlotValues == {LvA, LvB, None, Empty}

MfeValues == {1, 3}

\* the slot counts of the trades of a list: Len(shape) + Sum(shape) <= n
RECURSIVE Shapes(_)
Shapes(n) ==
  {<<>>} \cup UNION {{<<k - 1>> \o rest : rest \in Shapes(n - k)} : k \in 1..n}

\* the list whose i-th trade holds the next shape[i] slots of flat
SlotList(shape, flat, mfes) ==
  LET start[i \in 1..Len(shape)] == IF i = 1 THEN 0 ELSE start[i - 1] + shape[i - 1]
  IN [i \in 1..Len(shape) |->
        Trade(SubSeq(flat, start[i] + 1, start[i] + shape[i]), mfes[i], 1,
              Some(S1), Some(T1), FromInt(0), 0)]

InSlotFamily ==
  \E shape \in Shapes(MaxInputSize) :
    \E flat \in [1..Sum(shape) -> SlotValues], mfes \in [1..Len(shape) -> MfeValues] :
      trades = SlotList(shape, flat, mfes)

\* Combination family: up to MaxTrades trades, each holding one, two or three of
\* the levels A, B, C without repetition, in several slot orders.
Combinations ==
  {<<LvA>>, <<LvA, LvB>>, <<LvB, LvA>>, <<LvA, LvC>>, <<LvC, LvA>>, <<LvB, LvC>>,
   <<LvC, LvB, LvA>>}

CombinationTrades ==
  {Trade(l, mfe, 1, Some(S1), Some(T1), FromInt(0), 0) : l \in Combinations, mfe \in MfeValues}

InCombinationFamily == \E k \in 0..MaxTrades : trades \in [1..k -> CombinationTrades]

\* Session family: up to MaxTrades trades on level A whose session is unset,
\* empty or a label, with two (mfe, mae) outcomes.
SessionValues == {Nothing, Some(Empty), Some(S2), Some(S4), Some(IS4)}

Outcomes == {<<1, 2>>, <<3, 0>>}

SessionTrades ==
  {Trade(<<LvA>>, o[1], o[2], s, Some(S1), FromInt(0), 0) : s \in SessionValues, o \in Outcomes}

InSessionFamily == \E k \in 0..MaxTrades : trades \in [1..k -> SessionTrades]

\* Group family: up to MaxGroup trades of one group (level A, session S1) with
\* MFE in 1..MaxMfe and an MAE that is ordered differently from the MFE.
GroupTrades ==
  {Trade(<<LvA>>, mfe, (3 * mfe) % (MaxMfe + 1), Some(S1), Some(T1), FromInt(0), 0) :
     mfe \in 1..MaxMfe}

InGroupFamily == \E k \in 0..MaxGroup : trades \in [1..k -> GroupTrades]

\* Delimiter family: two trades, each holding two of the level names
\* "A", "C", "A|B", "B|C".
DelimiterTrades ==
  {Trade(l, 1, 1, Some(S1), Some(T1), FromInt(0), 0) :
     l \in {q \in [1..2 -> {LvA, LvC, LvAbarB, LvBbarC}] : q[1] # q[2]}}

InDelimiterFamily == trades \in [1..2 -> DelimiterTrades]

\* Heatmap family: up to MaxHeatTrades trades; the slots repeat a level, hold
\* two levels or only sentinels; entry type and session are set, empty or
\* absent and the delta falls in each category.
HeatSlots == {<<>>, <<LvA>>, <<LvA, LvA>>, <<LvB, LvA>>, <<None, LvB>>, <<Empty>>}

HeatProfiles ==
  {[entryType |-> Some(T2), session |-> Some(S2), delta |-> FromInt(30)],
   [entryType |-> Some(T1), session |-> Nothing, delta |-> FromInt(-10)],
   [entryType |-> Nothing, session |-> Some(S1), delta |-> FromInt(5)],
   [entryType |-> Some(Empty), session |-> Some(Empty), delta |-> FromInt(-30)]}

HeatTrades ==
  {Trade(l, mfe, 1, x.session, x.entryType, x.delta, 0) :
     l \in HeatSlots, mfe \in MfeValues, x \in HeatProfiles}

InHeatFamily == \E k \in 0..MaxHeatTrades : trades \in [1..k -> HeatTrades]

\* Helper inputs: an instant of MaxMinute + 1 minutes read in one of three time
\* zones, or a delta that is a multiple of 1 / DeltaScale up to MaxDelta.
TimeZones == {-300, 0, 330}

DateArgs == {[kind |-> "date", time |-> t, tz |-> z] : t \in 0..MaxMinute, z \in TimeZones}

DeltaArgs ==
  {[kind |-> "delta", value |-> Div(n, DeltaScale)] :
     n \in (-MaxDelta * DeltaScale)..(MaxDelta * DeltaScale)}

\* Open-interest family: up to MaxOiTrades trades that differ in their open
\* interest, with the percentiles around which the index changes for up to 5 values.
OiTrades == {Trade(<<LvA>>, 1, 1, Some(S1), Some(T1), FromInt(0), oi) : oi \in {10, 20, 30, 40}}

InOiFamily == \E k \in 0..MaxOiTrades : trades \in [1..k -> OiTrades]

Percentiles ==
  {0, 19, 20, 25, 33, 34, 40, 50, 60, 66, 67, 74, 75, 80, 99, 100}

PercentileArgs == {[kind |-> "percentile", percentile |-> q] : q \in Percentiles}

\* Finder family: up to MaxFinderTrades trades of five kinds: high or low delta,
\* high or low open interest, with one level, two levels or none.
FinderTrades ==
  {Trade(<<LvA>>, 1, 1, Some(S1), Some(T1), FromInt(30), 40),
   Trade(<<LvB, LvA>>, 3, 1, Some(S1), Some(T1), FromInt(10), 40),
   Trade(<<LvA>>, 3, 1, Some(S1), Some(T1), FromInt(5), 10),
   Trade(<<LvB>>, 1, 1, Some(S1), Some(T1), FromInt(-5), 20),
   Trade(<<None, Empty>>, 1, 1, Some(S1), Some(T1), FromInt(5), 10)}

InFinderFamily == \E k \in 0..MaxFinderTrades : trades \in [1..k -> FinderTrades]

ConditionArgs ==
  {[kind |-> "condition", conditionFn |-> name] :
     name \in {"bestHighDeltaHighOI", "bestLowDeltaLowOI", "acceptAll"}}

\* Duration inputs: entry and exit instants a few minutes or an hour and a half
\* apart, with and without seconds; the exit may be absent or ''.
Instants == {[time |-> t, tz |-> 0, sec |-> c] : t \in {0, 1, 2, 90}, c \in {0, 30}}

DurationArgs ==
  {[kind |-> "duration", entryTime |-> e, exitTime |-> x] :
     e \in Instants, x \in {Nothing, Some(Empty)} \cup {Some(d) : d \in Instants}}

\* a duration that is a multiple of 1 / DurationScale minutes up to MaxDuration
MinutesArgs ==
  {[kind |-> "minutes", minutes |-> Div(n, DurationScale)] : n \in 0..(MaxDuration * DurationScale)}

(***************************************************************************)
(* The application around the core: App (the journal, the strategy         *)
(* filter, the view), DataManagement (delete, CSV import, load samples)    *)
(* and TradeForm (the new-trade draft, submit).  A journal trade is        *)
(* modelled by its id and its strategy names; ids are pairs <<kind, n>>.   *)
(* The date filter, the settings lists and the persistence of the journal  *)
(* are not modelled.                                                       *)
(***************************************************************************)
\* the journal holds the first MaxSamples of the five sample trades
MaxSamples == 2

\* a session handles at most MaxEvents events (clicks, callbacks)
MaxEvents == 7

AppTrade(id, strategyNames) == [id |-> id, strategyNames |-> strategyNames]

LevelsOnly == "levels only"

OfSfp == "of sfp"

\* the strategy names of sample-1 .. sample-5
SampleStrategies ==
  <<(<<LevelsOnly>>), <<OfSfp>>, <<LevelsOnly>>, <<LevelsOnly>>, <<OfSfp, LevelsOnly>>>>

SAMPLE_TRADES ==
  [n \in 1..MaxSamples |-> AppTrade(<<"sample", n>>, SampleStrategies[n])]

\* the n-th value uuidv4() returns: fresh each time
uuidv4(n) == <<"uuid", n>>

\* the strategy names a user types or picks, in the order of Array.sort()
StrategyInputs == <<LevelsOnly, OfSfp>>

RemoveAt(s, i) == SubSeq(s, 1, i - 1) \o SubSeq(s, i + 1, Len(s))

Includes(s, x) == \E i \in DOMAIN s : s[i] = x

Ids(ts) == {ts[i].id : i \in DOMAIN ts}

allStrategiesOf(ts) ==
  LET used(s) == \E i \in DOMAIN ts : Includes(ts[i].strategyNames, s)
  IN SelectSeq(StrategyInputs, used)

\* the strategy part of filteredTrades
PassesStrategyFilter(t, selected) ==
  Len(selected) > 0 =>
    \E i \in DOMAIN t.strategyNames : Includes(selected, t.strategyNames[i])

\* the fields of the form that the draft keeps
EmptyForm == [strategyNames |-> <<>>, isDraftLoaded |-> FALSE, isSaving |-> FALSE]

DraftOf(form) == [strategyNames |-> form.strategyNames]

\* the effect that loads the initial data or the draft into the form
LoadedForm(form, initialData, savedDraft) ==
  IF initialData # Nothing
    THEN [form EXCEPT !.strategyNames = initialData[1].strategyNames]
    ELSE IF savedDraft # Nothing
           THEN [form EXCEPT !.strategyNames = savedDraft[1].strategyNames,
                             !.isDraftLoaded = TRUE]
           ELSE form

\* the auto-save effect, run when initialData or a field of the form changed
AutoSave_WhileEditing(form, initialData, savedDraft) == Some(DraftOf(form))

AutoSave(form, initialData, savedDraft) ==
  IF initialData # Nothing THEN savedDraft ELSE Some(DraftOf(form))

\* setTrades in handleSaveTrade
SavedTrades(prev, trade) ==
  IF \E i \in DOMAIN prev : prev[i].id = trade.id
    THEN LET index == CHOOSE i \in DOMAIN prev :
                        /\ prev[i].id = trade.id
                        /\ \A j \in 1..(i - 1) : prev[j].id # trade.id
         IN [prev EXCEPT ![index] = trade]
    ELSE <<trade>> \o prev

\* setSelectedStrategies in handleSaveTrade: selected is the selection of the
\* render the handler belongs to, prev the selection when the update runs
SelectionAfterSave(prev, selected, trade) ==
  LET fresh(s) == ~Includes(selected, s)
      newStrats == SelectSeq(trade.strategyNames, fresh)
  IN IF Len(newStrats) > 0 /\ Len(selected) > 0 THEN prev \o newStrats ELSE prev

\* a row of a parsed CSV file: its id cell may be empty
Row(id, strategyNames) == [id |-> id, strategyNames |-> strategyNames]

\* the files a user imports: one with two rows of one id, one with a row
\* without an id and an exported sample
Files ==
  { <<Row(Some(<<"csv", 1>>), <<LevelsOnly>>), Row(Some(<<"csv", 1>>), <<OfSfp>>)>>,
    <<Row(Nothing, <<OfSfp>>), Row(Some(<<"sample", 1>>), <<LevelsOnly>>)>> }

\* the rows without an id among the first n rows
RowsWithoutId(file, n) == Cardinality({i \in 1..n : file[i].id = Nothing})

\* validTrades: d.id || uuidv4(), with `used` uuids handed out before
ValidTrades(file, used) ==
  [i \in DOMAIN file |->
     AppTrade(IF file[i].id # Nothing THEN file[i].id[1]
                                     ELSE uuidv4(used + RowsWithoutId(file, i)),
              file[i].strategyNames)]

\* newUniqueTrades: the valid trades whose id is not in the journal the
\* handler saw
NewUniqueTrades(validTrades, existing) ==
  LET new(t) == t.id \notin Ids(existing)
  IN SelectSeq(validTrades, new)

\* what setAllTrades receives in the complete callback: allTradesSeen is the
\* journal of the render in which the file was selected
ImportedTrades(allTradesSeen, newUniqueTrades) ==
  allTradesSeen \o newUniqueTrades

\* the application while the core functions are called on their own
AppIdle ==
  /\ allTrades = SAMPLE_TRADES
  /\ selectedStrategies = <<>>
  /\ view = "dashboard"
  /\ editingTrade = Nothing
  /\ hasDraft = FALSE
  /\ draft = Nothing
  /\ tradeForm = Nothing
  /\ notePromises = <<>>
  /\ parsing = <<>>
  /\ uuids = 0
  /\ events = 0

InitStats ==
  /\ InSlotFamily \/ InCombinationFamily \/ InSessionFamily \/ InGroupFamily
  /\ arg = NoArg
  /\ fn = "none"
  /\ out = <<>>
  /\ AppIdle

InitPairs ==
  /\ InSlotFamily \/ InCombinationFamily \/ InDelimiterFamily
  /\ arg = NoArg
  /\ fn = "none"
  /\ out = <<>>
  /\ AppIdle

\* One behaviour is one call of one function on the input.
CallSingleFactorStats ==
  /\ fn = "none"
  /\ arg.kind = "none"
  /\ fn' = "calculateSingleFactorStats"
  /\ out' = calculateSingleFactorStats(trades)
  /\ UNCHANGED <<trades, arg>>
  /\ UNCHANGED appVars

CallSessionStats ==
  /\ fn = "none"
  /\ arg.kind = "none"
  /\ fn' = "calculateSessionStats"
  /\ out' = calculateSessionStats(trades)
  /\ UNCHANGED <<trades, arg>>
  /\ UNCHANGED appVars

CallPairStats ==
  /\ fn = "none"
  /\ arg.kind = "none"
  /\ fn' = "calculatePairStats"
  /\ out' = calculatePairStats(trades)
  /\ trades' = TradesAfterPairStats(trades)
  /\ UNCHANGED arg
  /\ UNCHANGED appVars

CallHeatmapStats ==
  /\ fn = "none"
  /\ arg.kind = "none"
  /\ fn' = "calculateHeatmapStats"
  /\ out' = calculateHeatmapStats(trades)
  /\ UNCHANGED <<trades, arg>>
  /\ UNCHANGED appVars

CallSessionLevelHeatmap ==
  /\ fn = "none"
  /\ arg.kind = "none"
  /\ fn' = "calculateSessionLevelHeatmap"
  /\ out' = calculateSessionLevelHeatmap(trades)
  /\ UNCHANGED <<trades, arg>>
  /\ UNCHANGED appVars

CallDeltaLevelHeatmap ==
  /\ fn = "none"
  /\ arg.kind = "none"
  /\ fn' = "calculateDeltaLevelHeatmap"
  /\ out' = calculateDeltaLevelHeatmap(trades)
  /\ UNCHANGED <<trades, arg>>
  /\ UNCHANGED appVars

InitHeatmap ==
  /\ InHeatFamily
  /\ arg = NoArg
  /\ fn = "none"
  /\ out = <<>>
  /\ AppIdle

NextHeatmap == CallHeatmapStats \/ CallSessionLevelHeatmap \/ CallDeltaLevelHeatmap

SpecHeatmap == InitHeatmap /\ [][NextHeatmap]_vars

CallGetSessionFromTime ==
  /\ fn = "none"
  /\ arg.kind = "date"
  /\ fn' = "getSessionFromTime"
  /\ out' = getSessionFromTime(arg)
  /\ UNCHANGED <<trades, arg>>
  /\ UNCHANGED appVars

CallGetDeltaCategory ==
  /\ fn = "none"
  /\ arg.kind = "delta"
  /\ fn' = "getDeltaCategory"
  /\ out' = getDeltaCategory(arg.value)
  /\ UNCHANGED <<trades, arg>>
  /\ UNCHANGED appVars

CallCalculateDuration ==
  /\ fn = "none"
  /\ arg.kind = "duration"
  /\ fn' = "calculateDuration"
  /\ out' = calculateDuration(arg.entryTime, arg.exitTime)
  /\ UNCHANGED <<trades, arg>>
  /\ UNCHANGED appVars

CallFormatDuration ==
  /\ fn = "none"
  /\ arg.kind = "minutes"
  /\ fn' = "formatDuration"
  /\ out' = formatDuration(arg.minutes)
  /\ UNCHANGED <<trades, arg>>
  /\ UNCHANGED appVars

InitHelpers ==
  /\ trades = <<>>
  /\ arg \in DateArgs \cup DeltaArgs \cup DurationArgs \cup MinutesArgs
  /\ fn = "none"
  /\ out = <<>>
  /\ AppIdle

NextHelpers ==
  \/ CallGetSessionFromTime
  \/ CallGetDeltaCategory
  \/ CallCalculateDuration
  \/ CallFormatDuration

CallGetOIPercentileValue ==
  /\ fn = "none"
  /\ arg.kind = "percentile"
  /\ fn' = "getOIPercentileValue"
  /\ out' = getOIPercentileValue(trades, arg.percentile)
  /\ trades' = TradesAfterPercentile(trades)
  /\ UNCHANGED arg
  /\ UNCHANGED appVars

\* the result together with the calls of the predicate it made
CallGetBestLevelForCondition ==
  /\ fn = "none"
  /\ arg.kind = "condition"
  /\ fn' = "getBestLevelForCondition"
  /\ out' = [result |-> getBestLevelForCondition(trades, arg.conditionFn),
             calls |-> ConditionCalls(trades)]
  /\ trades' = TradesAfterPercentile(trades)
  /\ UNCHANGED arg
  /\ UNCHANGED appVars

InitFinder ==
  /\ \/ InOiFamily /\ arg \in PercentileArgs
     \/ InFinderFamily /\ arg \in ConditionArgs
  /\ fn = "none"
  /\ out = <<>>
  /\ AppIdle

NextFinder == CallGetOIPercentileValue \/ CallGetBestLevelForCondition

SpecFinder == InitFinder /\ [][NextFinder]_vars

SpecHelpers == InitHelpers /\ [][NextHelpers]_vars

\* Heatmap delimiter family: two trades, each on the level "A" or "A::B" with
\* the entry type "C" or "B::C".
HeatDelimiterTrades ==
  {Trade(<<l>>, 1, 1, Some(S1), Some(x), FromInt(0), 0) :
     l \in {LvA, LvAccB}, x \in {TypeC, TypeBccC}}

InHeatDelimiterFamily == trades \in [1..2 -> HeatDelimiterTrades]

InitDelimiter ==
  /\ InDelimiterFamily \/ InHeatDelimiterFamily
  /\ arg = NoArg
  /\ fn = "none"
  /\ out = <<>>
  /\ AppIdle

NextDelimiter == CallPairStats \/ CallHeatmapStats

SpecDelimiter == InitDelimiter /\ [][NextDelimiter]_vars

\* Core family: up to MaxCoreTrades trades with no active level, one level or
\* two levels out of order; MFE 1 or 3 and an open interest that falls as the
\* MFE rises.  Every aggregation function is called on it.
CoreSlots == {<<None, Empty>>, <<LvA>>, <<LvB, LvA>>, <<LvC, LvB>>}

CoreTrades ==
  {Trade(l, mfe, 1, Some(S1), Some(T1), FromInt(0), 50 - 10 * mfe) :
     l \in CoreSlots, mfe \in MfeValues}

InCoreFamily == \E k \in 0..MaxCoreTrades : trades \in [1..k -> CoreTrades]

InitCore ==
  /\ InCoreFamily
  /\ arg \in {NoArg, [kind |-> "percentile", percentile |-> 75]} \cup ConditionArgs
  /\ fn = "none"
  /\ out = <<>>
  /\ AppIdle

NextCore ==
  \/ CallSingleFactorStats
  \/ CallSessionStats
  \/ CallPairStats
  \/ CallHeatmapStats
  \/ CallSessionLevelHeatmap
  \/ CallDeltaLevelHeatmap
  \/ CallGetOIPercentileValue
  \/ CallGetBestLevelForCondition

SpecCore == InitCore /\ [][NextCore]_vars

(***************************************************************************)
(* The handlers of the application.  Each action is one handler together   *)
(* with the render and the effects that follow it.                         *)
(***************************************************************************)

\* one more event is handled; the core functions are not part of the step
Handled ==
  /\ events < MaxEvents
  /\ events' = events + 1
  /\ UNCHANGED coreVars

\* the checkDraft effect, run when view or trades changed
checkDraft(savedDraft) == savedDraft # Nothing

\* the buttons Dashboard and Settings of the navigation, and onClose
ShowView(v) ==
  /\ Handled
  /\ view' = v
  /\ editingTrade' = Nothing
  /\ tradeForm' = Nothing
  /\ hasDraft' = IF view # v THEN checkDraft(draft) ELSE hasDraft
  /\ UNCHANGED <<allTrades, selectedStrategies, draft, notePromises, parsing, uuids>>

NavDashboard == ShowView("dashboard")

NavSettings == ShowView("settings")

\* the button Log Trade: the form is mounted, or an edit form becomes the
\* new-trade form and its effects run again
NavEntry ==
  /\ Handled
  /\ view' = "entry"
  /\ editingTrade' = Nothing
  /\ LET mounted == tradeForm # Nothing
         rerun == ~mounted \/ editingTrade # Nothing
         form == IF mounted THEN tradeForm[1] ELSE EmptyForm
         loaded == IF rerun THEN LoadedForm(form, Nothing, draft) ELSE form
     IN /\ tradeForm' = Some(loaded)
        /\ draft' = IF rerun THEN AutoSave(loaded, Nothing, draft) ELSE draft
  /\ hasDraft' = IF view # "entry" THEN checkDraft(draft') ELSE hasDraft
  /\ UNCHANGED <<allTrades, selectedStrategies, notePromises, parsing, uuids>>

\* the button Resume Unsaved Draft
ResumeDraft ==
  /\ view = "dashboard"
  /\ hasDraft
  /\ editingTrade = Nothing
  /\ Handled
  /\ view' = "entry"
  /\ LET loaded == LoadedForm(EmptyForm, Nothing, draft)
     IN /\ tradeForm' = Some(loaded)
        /\ draft' = AutoSave(loaded, Nothing, draft)
  /\ hasDraft' = checkDraft(draft')
  /\ UNCHANGED <<allTrades, selectedStrategies, editingTrade, notePromises, parsing, uuids>>

handleEditTrade ==
  /\ view = "dashboard"
  /\ \E i \in DOMAIN allTrades :
       /\ PassesStrategyFilter(allTrades[i], selectedStrategies)
       /\ editingTrade' = Some(allTrades[i])
  /\ Handled
  /\ view' = "entry"
  /\ tradeForm' = Some(LoadedForm(EmptyForm, editingTrade', draft))
  /\ draft' = AutoSave(tradeForm'[1], editingTrade', draft)
  /\ hasDraft' = checkDraft(draft')
  /\ UNCHANGED <<allTrades, selectedStrategies, notePromises, parsing, uuids>>

\* a change of a field of the form, followed by the auto-save effect
ChangeForm(strategyNames) ==
  /\ Handled
  /\ tradeForm' = Some([tradeForm[1] EXCEPT !.strategyNames = strategyNames])
  /\ draft' = AutoSave(tradeForm'[1], editingTrade, draft)
  /\ UNCHANGED <<allTrades, selectedStrategies, view, editingTrade, hasDraft,
                 notePromises, parsing, uuids>>

handleAddStrategy ==
  /\ tradeForm # Nothing
  /\ \E i \in DOMAIN StrategyInputs :
       /\ ~Includes(tradeForm[1].strategyNames, StrategyInputs[i])
       /\ ChangeForm(Append(tradeForm[1].strategyNames, StrategyInputs[i]))

handleRemoveStrategy ==
  /\ tradeForm # Nothing
  /\ \E i \in DOMAIN tradeForm[1].strategyNames :
       LET kept(s) == s # tradeForm[1].strategyNames[i]
       IN ChangeForm(SelectSeq(tradeForm[1].strategyNames, kept))

\* a confirmed Discard Draft: the item is removed, the fields are reset and
\* the auto-save effect runs
handleDiscardDraft ==
  /\ tradeForm # Nothing
  /\ editingTrade = Nothing
  /\ tradeForm[1].isDraftLoaded
  /\ Handled
  /\ tradeForm' = Some([tradeForm[1] EXCEPT !.strategyNames = <<>>,
                                            !.isDraftLoaded = FALSE])
  /\ draft' = AutoSave(tradeForm'[1], editingTrade, Nothing)
  /\ UNCHANGED <<allTrades, selectedStrategies, view, editingTrade, hasDraft,
                 notePromises, parsing, uuids>>

\* handleSaveTrade of the render whose selection is selected and whose
\* editingTrade is initialData, followed by onClose
handleSaveTrade(trade, selected, initialData) ==
  /\ Handled
  /\ allTrades' = SavedTrades(allTrades, trade)
  /\ selectedStrategies' = SelectionAfterSave(selectedStrategies, selected, trade)
  /\ draft' = IF initialData = Nothing THEN Nothing ELSE draft
  /\ hasDraft' = checkDraft(draft')
  /\ editingTrade' = Nothing
  /\ view' = "dashboard"
  /\ tradeForm' = Nothing

\* the id of the trade a submit builds
NewTradeId(initialData) ==
  IF initialData # Nothing THEN initialData[1].id ELSE uuidv4(uuids + 1)

UuidsAfterSubmit(initialData) ==
  IF initialData # Nothing THEN uuids ELSE uuids + 1

\* handleSubmit with notes or in quick mode: nothing is awaited
handleSubmit ==
  /\ tradeForm # Nothing
  /\ ~tradeForm[1].isSaving
  /\ Len(tradeForm[1].strategyNames) > 0
  /\ handleSaveTrade(AppTrade(NewTradeId(editingTrade), tradeForm[1].strategyNames),
                     selectedStrategies, editingTrade)
  /\ uuids' = UuidsAfterSubmit(editingTrade)
  /\ UNCHANGED <<notePromises, parsing>>

\* handleSubmit with empty notes, up to the await of generateSingleTradeNote
handleSubmitAwait ==
  /\ tradeForm # Nothing
  /\ ~tradeForm[1].isSaving
  /\ Len(tradeForm[1].strategyNames) > 0
  /\ Handled
  /\ tradeForm' = Some([tradeForm[1] EXCEPT !.isSaving = TRUE])
  /\ notePromises' = Append(notePromises,
                            [initialData |-> editingTrade,
                             strategyNames |-> tradeForm[1].strategyNames,
                             selectedStrategies |-> selectedStrategies])
  /\ UNCHANGED <<allTrades, selectedStrategies, view, editingTrade, hasDraft, draft,
                 parsing, uuids>>

\* the rest of handleSubmit once the note is there, with the values of the
\* render in which the form was submitted
NoteResolvedAt(i) ==
  LET p == notePromises[i]
  IN /\ handleSaveTrade(AppTrade(NewTradeId(p.initialData), p.strategyNames),
                        p.selectedStrategies, p.initialData)
     /\ uuids' = UuidsAfterSubmit(p.initialData)
     /\ notePromises' = RemoveAt(notePromises, i)
     /\ UNCHANGED parsing

NoteResolved == \E i \in DOMAIN notePromises : NoteResolvedAt(i)

handleToggleStrategy ==
  /\ view = "dashboard"
  /\ \E i \in DOMAIN allStrategiesOf(allTrades) :
       LET strategy == allStrategiesOf(allTrades)[i]
           others(s) == s # strategy
       IN selectedStrategies' =
            IF Includes(selectedStrategies, strategy)
              THEN SelectSeq(selectedStrategies, others)
              ELSE Append(selectedStrategies, strategy)
  /\ Handled
  /\ UNCHANGED <<allTrades, view, editingTrade, hasDraft, draft, tradeForm,
                 notePromises, parsing, uuids>>

onSelectAll ==
  /\ view = "dashboard"
  /\ Len(allStrategiesOf(allTrades)) > 0
  /\ Handled
  /\ selectedStrategies' = allStrategiesOf(allTrades)
  /\ UNCHANGED <<allTrades, view, editingTrade, hasDraft, draft, tradeForm,
                 notePromises, parsing, uuids>>

onClear ==
  /\ view = "dashboard"
  /\ Len(allStrategiesOf(allTrades)) > 0
  /\ Handled
  /\ selectedStrategies' = <<>>
  /\ UNCHANGED <<allTrades, view, editingTrade, hasDraft, draft, tradeForm,
                 notePromises, parsing, uuids>>

\* a confirmed Load Samples
handleLoadSamples ==
  /\ view = "dashboard"
  /\ Handled
  /\ LET new(t) == t.id \notin Ids(allTrades)
         newSamples == SelectSeq(SAMPLE_TRADES, new)
     IN IF Len(newSamples) = 0
          THEN UNCHANGED <<allTrades, selectedStrategies>>
          ELSE /\ allTrades' = newSamples \o allTrades
               /\ selectedStrategies' = <<>>
  /\ hasDraft' = IF allTrades' # allTrades THEN checkDraft(draft) ELSE hasDraft
  /\ UNCHANGED <<view, editingTrade, draft, tradeForm, notePromises, parsing, uuids>>

\* handleImport: Papa.parse starts on the selected file
handleImport ==
  /\ view = "dashboard"
  /\ Handled
  /\ \E file \in Files :
       parsing' = Append(parsing, [allTrades |-> allTrades, file |-> file])
  /\ UNCHANGED <<allTrades, selectedStrategies, view, editingTrade, hasDraft, draft,
                 tradeForm, notePromises, uuids>>

\* the complete callback of Papa.parse
completeAt(i) ==
  LET p == parsing[i]
      validTrades == ValidTrades(p.file, uuids)
      newUniqueTrades == NewUniqueTrades(validTrades, p.allTrades)
  IN /\ Handled
     /\ uuids' = uuids + RowsWithoutId(p.file, Len(p.file))
     /\ allTrades' = IF Len(newUniqueTrades) > 0
                       THEN ImportedTrades(p.allTrades, newUniqueTrades)
                       ELSE allTrades
     /\ hasDraft' = IF Len(newUniqueTrades) > 0 THEN checkDraft(draft) ELSE hasDraft
     /\ parsing' = RemoveAt(parsing, i)
     /\ UNCHANGED <<selectedStrategies, view, editingTrade, draft, tradeForm,
                    notePromises>>

complete == \E i \in DOMAIN parsing : completeAt(i)

handleDelete ==
  /\ view = "dashboard"
  /\ \E i \in DOMAIN allTrades :
       /\ PassesStrategyFilter(allTrades[i], selectedStrategies)
       /\ LET kept(t) == t.id # allTrades[i].id
          IN allTrades' = SelectSeq(allTrades, kept)
  /\ Handled
  /\ hasDraft' = checkDraft(draft)
  /\ UNCHANGED <<selectedStrategies, view, editingTrade, draft, tradeForm,
                 notePromises, parsing, uuids>>

\* first visit: the journal holds the sample trades and nothing is stored
InitApp ==
  /\ AppIdle
  /\ trades = <<>>
  /\ arg = NoArg
  /\ fn = "none"
  /\ out = <<>>

NextApp ==
  \/ NavDashboard
  \/ NavSettings
  \/ NavEntry
  \/ ResumeDraft
  \/ handleEditTrade
  \/ handleAddStrategy
  \/ handleRemoveStrategy
  \/ handleDiscardDraft
  \/ handleSubmit
  \/ handleSubmitAwait
  \/ NoteResolved
  \/ handleToggleStrategy
  \/ onSelectAll
  \/ onClear
  \/ handleLoadSamples
  \/ handleImport
  \/ complete
  \/ handleDelete

SpecApp == InitApp /\ [][NextApp]_vars

\* every function on every input, and the application
Init ==
  \/ InitStats \/ InitPairs \/ InitHeatmap \/ InitHelpers \/ InitFinder
  \/ InitDelimiter \/ InitCore \/ InitApp

Next ==
  \/ CallSingleFactorStats
  \/ CallSessionStats
  \/ CallPairStats
  \/ CallHeatmapStats
  \/ CallSessionLevelHeatmap
  \/ CallDeltaLevelHeatmap
  \/ CallGetSessionFromTime
  \/ CallGetDeltaCategory
  \/ CallCalculateDuration
  \/ CallFormatDuration
  \/ CallGetOIPercentileValue
  \/ CallGetBestLevelForCondition
  \/ NextApp

Spec == Init /\ [][Next]_vars

\* the statistics of the dashboard's tables
NextStats == CallSingleFactorStats \/ CallSessionStats \/ CallPairStats

SpecStats == InitStats /\ [][NextStats]_vars

NextPairs == CallPairStats

SpecPairs == InitPairs /\ [][NextPairs]_vars

(***************************************************************************)
(* Vocabulary of the properties                                            *)
(***************************************************************************)
\* the trade holds the level in at least one slot
Holds(trade, level) ==
  /\ level # None
  /\ level # Empty
  /\ \E k \in 1..Len(trade.taLevels) : trade.taLevels[k] = level

\* the positions in the input of the trades that hold the level
Holders(level) == {i \in 1..Len(trades) : Holds(trades[i], level)}

\* the positions of the trades that hold both levels
PairHolders(p, q) == {i \in 1..Len(trades) : Holds(trades[i], p) /\ Holds(trades[i], q)}

\* the positions of the trades of a session group
SessionMembers(label) ==
  {i \in 1..Len(trades) :
     \/ trades[i].session # Nothing /\ trades[i].session[1] # Empty /\ trades[i].session[1] = label
     \/ (trades[i].session = Nothing \/ trades[i].session[1] = Empty) /\ label = NA}

\* the levels that are active on at least one trade of the input
ActiveLevelsOfInput ==
  {l \in UNION {Range(trades[i].taLevels) : i \in 1..Len(trades)} : l # None /\ l # Empty}

RECURSIVE SumOver(_, _)
SumOver(I, f) == IF I = {} THEN 0 ELSE LET i == CHOOSE j \in I : TRUE IN f[i] + SumOver(I \ {i}, f)

MfeAt == [i \in 1..Len(trades) |-> trades[i].mfe]

MaeAt == [i \in 1..Len(trades) |-> trades[i].mae]

\* the fraction r is the arithmetic mean of f over the non-empty index set I
IsMeanOver(r, I, f) == r[2] > 0 /\ I # {} /\ r[1] * Cardinality(I) = SumOver(I, f) * r[2]

\* the group of input positions a row of the last call stands for
GroupOf(row) ==
  IF fn = "calculateSessionStats" THEN SessionMembers(row.level) ELSE Holders(row.level)

\* the distinct active levels of a trade
ActiveSet(trade) == {l \in Range(trade.taLevels) : l # None /\ l # Empty}

(***************************************************************************)
(* C1: calculatePairStats treats duplicated levels in one trade's slots as *)
(* a single occurrence: the pairs a trade contributes are exactly the      *)
(* 2-element combinations of its distinct active levels, each contributed  *)
(* once, and no pair has the same level on both sides.                     *)
(***************************************************************************)
C1_PairsOfDistinctLevels ==
  fn = "calculatePairStats" =>
    /\ \A i \in 1..Len(trades) :
         LET pairs == TradePairs(trades[i])
         IN /\ \A a \in 1..Len(pairs) : pairs[a][1] # pairs[a][2]
            /\ \A a, b \in 1..Len(pairs) : a # b => pairs[a] # pairs[b]
            /\ {{pairs[a][1], pairs[a][2]} : a \in 1..Len(pairs)}
                 = {{p, q} : p, q \in ActiveSet(trades[i])} \ {{p} : p \in ActiveSet(trades[i])}
    /\ \A r \in 1..Len(out) : out[r].pair[1] # out[r].pair[2]

(***************************************************************************)
(* C2: calculatePairStats never returns a pair that fewer than 2 trades of *)
(* the input exhibit.                                                      *)
(***************************************************************************)
C2_PairSeenInTwoTrades ==
  fn = "calculatePairStats" =>
    \A r \in 1..Len(out) : Cardinality(PairHolders(out[r].pair[1], out[r].pair[2])) >= 2

\* the three heatmap functions
Heatmaps == {"calculateHeatmapStats", "calculateSessionLevelHeatmap", "calculateDeltaLevelHeatmap"}

\* trade i belongs to column x of the heatmap of the last call
InColumn(i, x) ==
  IF fn = "calculateHeatmapStats"
    THEN trades[i].entryType # Nothing /\ trades[i].entryType[1] # Empty /\ trades[i].entryType[1] = x
  ELSE IF fn = "calculateSessionLevelHeatmap" THEN i \in SessionMembers(x)
  ELSE getDeltaCategory(trades[i].delta) = x

CellMembers(y, x) == {i \in Holders(y) : InColumn(i, x)}

(***************************************************************************)
(* C3: in each of the three heatmaps every populated cell (y, x) has count *)
(* equal to the number of trades that hold y among their active levels and *)
(* have x as their x-category, and avgMfe equal to the mean MFE of exactly *)
(* those trades; a trade that lists y in several slots contributes once.   *)
(***************************************************************************)
C3_CellCountsTrades ==
  fn \in Heatmaps =>
    \A y \in Range(out.yLabels), x \in Range(out.xLabels) :
      MapHas(out.grid, CellKey(y, x)) =>
        /\ MapGet(out.grid, CellKey(y, x)).count = Cardinality(CellMembers(y, x))
        /\ IsMeanOver(MapGet(out.grid, CellKey(y, x)).avgMfe, CellMembers(y, x), MfeAt)

(***************************************************************************)
(* C4: calculateSingleFactorStats returns exactly one row per level that   *)
(* is active on at least one input trade; the row's count is the number of *)
(* trades holding the level, a trade that lists the level in several slots *)
(* counting once; no row has count 0.                                      *)
(***************************************************************************)
C4_OneRowPerActiveLevel ==
  fn = "calculateSingleFactorStats" =>
    /\ {out[i].level : i \in 1..Len(out)} = ActiveLevelsOfInput
    /\ Len(out) = Cardinality(ActiveLevelsOfInput)
    /\ \A i \in 1..Len(out) :
         /\ out[i].count = Cardinality(Holders(out[i].level))
         /\ out[i].count >= 1

\* a trade lists A twice, two trades hold A, and the row of A counts 2
C4_Witness ==
  /\ fn = "calculateSingleFactorStats"
  /\ \E i \in 1..Len(trades) :
       \E k1, k2 \in 1..Len(trades[i].taLevels) :
         k1 # k2 /\ trades[i].taLevels[k1] = LvA /\ trades[i].taLevels[k2] = LvA
  /\ \E r \in 1..Len(out) : out[r].level = LvA /\ out[r].count = 2
  /\ \E r \in 1..Len(out) : out[r].level = LvB

(***************************************************************************)
(* C5: in every row of calculateSingleFactorStats and of                   *)
(* calculateSessionStats, avgMfe and avgMae are the arithmetic means of    *)
(* MFE and MAE over the trades of the row's group, and score is avgMfe     *)
(* minus avgMae.                                                           *)
(***************************************************************************)
C5_MeansAndScore ==
  fn \in {"calculateSingleFactorStats", "calculateSessionStats"} =>
    \A i \in 1..Len(out) :
      /\ IsMeanOver(out[i].avgMfe, GroupOf(out[i]), MfeAt)
      /\ IsMeanOver(out[i].avgMae, GroupOf(out[i]), MaeAt)
      /\ out[i].score[2] > 0
      /\ out[i].score[1] * out[i].avgMfe[2] * out[i].avgMae[2]
           = (out[i].avgMfe[1] * out[i].avgMae[2] - out[i].avgMae[1] * out[i].avgMfe[2])
               * out[i].score[2]

\* a session group of two trades with different outcomes, whose averages are
\* 2 and 1
C5_Witness ==
  /\ fn = "calculateSessionStats"
  /\ \E i \in 1..Len(out) :
       /\ out[i].level = NA
       /\ out[i].count = 2
       /\ out[i].avgMfe = <<2, 1>>
       /\ out[i].avgMae = <<1, 1>>
       /\ out[i].score = <<1, 1>>

\* v is the k-th smallest of the values f[i], i in I
IsKthSmallest(v, k, I, f) ==
  /\ \E i \in I : f[i] = v
  /\ Cardinality({i \in I : f[i] < v}) < k
  /\ k <= Cardinality({i \in I : f[i] <= v})

\* the fraction m is the median of the values f[i], i in I
IsMedianOver(m, I, f) ==
  LET n == Cardinality(I)
  IN IF n % 2 = 1
     THEN \E i \in I : IsKthSmallest(f[i], (n + 1) \div 2, I, f) /\ m = <<f[i], 1>>
     ELSE \E i, j \in I :
            /\ IsKthSmallest(f[i], n \div 2, I, f)
            /\ IsKthSmallest(f[j], n \div 2 + 1, I, f)
            /\ m[2] > 0
            /\ 2 * m[1] = (f[i] + f[j]) * m[2]

(***************************************************************************)
(* C6: the median of a group is the middle element of its values sorted    *)
(* ascending when their number is odd, and the mean of the two central     *)
(* sorted elements when it is even, whatever the order of the input.       *)
(***************************************************************************)
C6_Median ==
  fn \in {"calculateSingleFactorStats", "calculateSessionStats"} =>
    \A i \in 1..Len(out) :
      /\ IsMedianOver(out[i].medianMfe, GroupOf(out[i]), MfeAt)
      /\ IsMedianOver(out[i].medianMae, GroupOf(out[i]), MaeAt)

\* the values 1, 2, 3, 4 supplied out of order have median 2.5
C6_Witness ==
  /\ fn = "calculateSingleFactorStats"
  /\ Len(trades) = 4
  /\ {trades[i].mfe : i \in 1..4} = {1, 2, 3, 4}
  /\ trades[1].mfe > trades[2].mfe
  /\ Len(out) = 1
  /\ out[1].medianMfe = <<5, 2>>

(***************************************************************************)
(* C7: the rows of calculateSingleFactorStats and the rows of              *)
(* calculatePairStats are in non-increasing order of avgMfe.               *)
(***************************************************************************)
C7_DescendingAvgMfe ==
  fn \in {"calculateSingleFactorStats", "calculatePairStats"} =>
    \A i, j \in 1..Len(out) : i < j => ~Less(out[i].avgMfe, out[j].avgMfe)

\* pair rows that the map holds in increasing order of avgMfe
C7_Witness ==
  /\ fn = "calculatePairStats"
  /\ Len(out) >= 2
  /\ Less(out[2].avgMfe, out[1].avgMfe)
  /\ out # AtLeastTwo(PairRows(PairMap(trades)))

NoTradeRepeatsALevel ==
  \A i \in 1..Len(trades) :
    \A k1, k2 \in 1..Len(trades[i].taLevels) :
      k1 # k2 /\ trades[i].taLevels[k1] = trades[i].taLevels[k2]
        => trades[i].taLevels[k1] \in {None, Empty}

(***************************************************************************)
(* C8: when no trade repeats a level, calculatePairStats has at most one   *)
(* row per unordered pair, the row lists the two labels in lexicographic   *)
(* order, its count is the number of trades holding both levels and its    *)
(* avgMfe is the mean MFE of those trades.                                 *)
(***************************************************************************)
C8_OneRowPerUnorderedPair ==
  fn = "calculatePairStats" /\ NoTradeRepeatsALevel =>
    /\ \A r1, r2 \in 1..Len(out) :
         r1 # r2 => {out[r1].pair[1], out[r1].pair[2]} # {out[r2].pair[1], out[r2].pair[2]}
    /\ \A r \in 1..Len(out) :
         /\ StrLess(out[r].pair[1], out[r].pair[2])
         /\ out[r].count = Cardinality(PairHolders(out[r].pair[1], out[r].pair[2]))
         /\ IsMeanOver(out[r].avgMfe, PairHolders(out[r].pair[1], out[r].pair[2]), MfeAt)

\* h is the hour of day of the instant in its time zone
IsLocalHour(h, date) ==
  \E day \in -1..((MaxMinute \div 1440) + 1), minute \in 0..59 :
    date.time + date.tz = day * 1440 + h * 60 + minute

(***************************************************************************)
(* C9: getSessionFromTime maps every local hour 0..23 to exactly one of    *)
(* the five labels: 5..10 to S1, 11..16 to S2, 17..22 to S3, 1..4 to IS4,  *)
(* and 0 and 23 to S4.                                                     *)
(***************************************************************************)
C9_SessionPartition ==
  fn = "getSessionFromTime" =>
    \E h \in 0..23 :
      /\ IsLocalHour(h, arg)
      /\ out \in {S1, S2, S3, S4, IS4}
      /\ out = S1 <=> h \in 5..10
      /\ out = S2 <=> h \in 11..16
      /\ out = S3 <=> h \in 17..22
      /\ out = IS4 <=> h \in 1..4
      /\ out = S4 <=> h \in {0, 23}

\* an instant whose local hour is 4, the last hour of IS4
C9_Witness ==
  /\ fn = "getSessionFromTime"
  /\ IsLocalHour(4, arg)
  /\ arg.tz # 0
  /\ out = IS4

\* the magnitude of the fraction x exceeds the whole number n
MagnitudeAbove(x, n) == x[1] > n * x[2] \/ -x[1] > n * x[2]

(***************************************************************************)
(* C10: getDeltaCategory(-x) equals getDeltaCategory(x); the result is     *)
(* High++ when |x| > 20, High when 7 < |x| <= 20 and Low when |x| <= 7.    *)
(***************************************************************************)
C10_DeltaSymmetric ==
  fn = "getDeltaCategory" =>
    /\ out = getDeltaCategory(<<-arg.value[1], arg.value[2]>>)
    /\ MagnitudeAbove(arg.value, 20) => out = HIGH_PLUS
    /\ MagnitudeAbove(arg.value, 7) /\ ~MagnitudeAbove(arg.value, 20) => out = HIGH
    /\ ~MagnitudeAbove(arg.value, 7) => out = LOW

\* the boundary value -20 is High
C10_Witness ==
  /\ fn = "getDeltaCategory"
  /\ arg.value = <<-20, 1>>
  /\ out = HIGH

(***************************************************************************)
(* C11: calculateSessionStats puts every input trade into exactly one     *)
(* group, the group of its session label, or of 'N/A' when the session is  *)
(* unset or empty: each row counts the trades of its label and at least    *)
(* one, and the counts of the rows sum to the number of input trades.      *)
(***************************************************************************)
C11_OneSessionGroupPerTrade ==
  fn = "calculateSessionStats" =>
    /\ \A r \in 1..Len(out) :
         /\ out[r].count = Cardinality(SessionMembers(out[r].level))
         /\ out[r].count >= 1
    /\ \A i \in 1..Len(trades) :
         Cardinality({r \in 1..Len(out) : i \in SessionMembers(out[r].level)}) = 1
    /\ Sum([r \in 1..Len(out) |-> out[r].count]) = Len(trades)

\* an unset session, an empty one and a labelled one: two rows, N/A counts two
C11_Witness ==
  /\ fn = "calculateSessionStats"
  /\ \E i, j, k \in 1..Len(trades) :
       /\ trades[i].session = Nothing
       /\ trades[j].session = Some(Empty)
       /\ trades[k].session = Some(IS4)
  /\ Len(out) = 2
  /\ \E r \in 1..Len(out) : out[r].level = NA /\ out[r].count = 2

\* the labels of the fixed list that some trade of the input falls under
PresentSessions == SelectSeq(SessionOrder, LAMBDA l : SessionMembers(l) # {})

(***************************************************************************)
(* C12: calculateSessionStats returns its rows in the order of the fixed   *)
(* list [S1, S2, S3, S4, IS4, N/A]: the labels of the rows are the labels  *)
(* of that list that occur in the input, in the list's order, whatever the *)
(* statistics and whatever the order of the trades.                        *)
(***************************************************************************)
C12_FixedSessionOrder ==
  fn = "calculateSessionStats" =>
    [r \in 1..Len(out) |-> out[r].level] = PresentSessions

\* three groups met in the order N/A, IS4, S2, with the best average MFE on N/A
C12_Witness ==
  /\ fn = "calculateSessionStats"
  /\ Len(trades) = 3
  /\ trades[1].session = Nothing /\ trades[1].mfe = 3
  /\ trades[2].session = Some(IS4) /\ trades[2].mfe = 1
  /\ trades[3].session = Some(S2) /\ trades[3].mfe = 1
  /\ [r \in 1..Len(out) |-> out[r].level] = <<S2, IS4, NA>>

(***************************************************************************)
(* C13: in each heatmap result maxMfe is the maximum avgMfe over the cells *)
(* of grid, and 0 when grid has no cell (MFE values are non-negative).     *)
(***************************************************************************)
C13_MaxMfeIsMaximum ==
  fn \in Heatmaps =>
    /\ Len(out.grid) = 0 => out.maxMfe = FromInt(0)
    /\ Len(out.grid) > 0 =>
         /\ \E c \in 1..Len(out.grid) : out.grid[c].val.avgMfe = out.maxMfe
         /\ \A c \in 1..Len(out.grid) : ~Less(out.maxMfe, out.grid[c].val.avgMfe)

\* the cell with the largest average is not the last one of the grid
C13_Witness ==
  /\ fn \in Heatmaps
  /\ Len(out.grid) >= 2
  /\ Less(out.grid[Len(out.grid)].val.avgMfe, out.maxMfe)
  /\ out.grid[1].val.avgMfe = out.maxMfe

\* the trade has no entry type: the field is absent or ''
NoEntryType(trade) == trade.entryType = Nothing \/ trade.entryType[1] = Empty

\* the list without its i-th element
Without(s, i) == SubSeq(s, 1, i - 1) \o SubSeq(s, i + 1, Len(s))

(***************************************************************************)
(* C14: a trade whose entryType is empty or absent is excluded entirely    *)
(* from calculateHeatmapStats: every x label is the entry type of a trade  *)
(* that has one, every y label and every cell comes from such a trade, and *)
(* the result equals the result on the list with that trade removed.       *)
(***************************************************************************)
C14_NoEntryTypeExcluded ==
  fn = "calculateHeatmapStats" =>
    /\ \A x \in Range(out.xLabels) :
         x # Empty /\ \E i \in 1..Len(trades) : trades[i].entryType = Some(x)
    /\ \A y \in Range(out.yLabels) :
         \E i \in Holders(y) : ~NoEntryType(trades[i])
    /\ \A c \in 1..Len(out.grid) :
         \E i \in 1..Len(trades) : \E y \in ActiveSet(trades[i]) :
           ~NoEntryType(trades[i]) /\ out.grid[c].key = CellKey(y, trades[i].entryType[1])
    /\ \A i \in 1..Len(trades) :
         NoEntryType(trades[i]) => out = calculateHeatmapStats(Without(trades, i))

\* a trade without entry type holds level B, which then is no row of the result
C14_Witness ==
  /\ fn = "calculateHeatmapStats"
  /\ \E i, j \in 1..Len(trades) :
       /\ NoEntryType(trades[i]) /\ Holds(trades[i], LvB)
       /\ ~NoEntryType(trades[j]) /\ Holds(trades[j], LvA)
  /\ out.yLabels = <<LvA>>
  /\ Len(out.grid) = 1

\* the sequence is strictly increasing by the position of its elements in order
IncreasingIn(labels, order) ==
  /\ \A k \in 1..Len(labels) : IndexOf(order, labels[k]) > 0
  /\ \A k \in 1..(Len(labels) - 1) : IndexOf(order, labels[k]) < IndexOf(order, labels[k + 1])

\* the sequence is strictly increasing in the order of the code units
IncreasingLexicographic(labels) ==
  \A k \in 1..(Len(labels) - 1) : StrLess(labels[k], labels[k + 1])

(***************************************************************************)
(* C15: in every heatmap result the labels are distinct and ordered:       *)
(* yLabels lexicographically; xLabels lexicographically for the entry-type *)
(* heatmap, in the order [S1, S2, S3, S4, IS4, N/A] for the session        *)
(* heatmap and in the order [High++, High, Low] for the delta heatmap.     *)
(***************************************************************************)
C15_LabelsDistinctOrdered ==
  fn \in Heatmaps =>
    /\ IncreasingLexicographic(out.yLabels)
    /\ fn = "calculateHeatmapStats" => IncreasingLexicographic(out.xLabels)
    /\ fn = "calculateSessionLevelHeatmap" => IncreasingIn(out.xLabels, SessionOrder)
    /\ fn = "calculateDeltaLevelHeatmap" => IncreasingIn(out.xLabels, DeltaOrder)

\* the session heatmap meets N/A before S1 and level B before level A
C15_Witness ==
  /\ fn = "calculateSessionLevelHeatmap"
  /\ Len(trades) = 2
  /\ trades[1].session = Nothing /\ trades[1].taLevels = <<LvB, LvA>>
  /\ trades[2].session = Some(S1)
  /\ out.xLabels = <<S1, NA>>
  /\ out.yLabels = <<LvA, LvB>>

OiAt == [i \in 1..Len(trades) |-> trades[i].oi]

\* the rank, counted from 1, of the percentile q among n values:
\* min(floor(q / 100 * n), n - 1) + 1
RankOf(q, n) == (IF (q * n) \div 100 < n - 1 THEN (q * n) \div 100 ELSE n - 1) + 1

\* the input in another order
Permuted(perm) == [i \in 1..Len(trades) |-> trades[perm[i]]]

SecondsBetween ==
  (arg.exitTime[1].time - arg.entryTime.time) * 60 + (arg.exitTime[1].sec - arg.entryTime.sec)

\* the call has an exit timestamp
HasExit == arg.exitTime # Nothing /\ DOMAIN arg.exitTime[1] # {}

(***************************************************************************)
(* C17: calculateDuration never returns a negative number: 0 when the exit *)
(* timestamp is absent, 0 when the exit is earlier than the entry, and     *)
(* otherwise the difference exit minus entry in minutes.                   *)
(***************************************************************************)
C17_DurationNonNegative ==
  fn = "calculateDuration" =>
    /\ out[2] > 0 /\ out[1] >= 0
    /\ ~HasExit => out = FromInt(0)
    /\ HasExit /\ SecondsBetween < 0 => out = FromInt(0)
    /\ HasExit /\ SecondsBetween >= 0 => out[1] * 60 = SecondsBetween * out[2]

\* an exit 90 seconds after the entry: a minute and a half
C17_Witness ==
  /\ fn = "calculateDuration"
  /\ HasExit
  /\ SecondsBetween = 90
  /\ out = <<3, 2>>

(***************************************************************************)
(* C18: for every non-negative duration m in minutes, whole or fractional, *)
(* formatDuration returns '-' when m = 0, round(m) followed by 'm' when    *)
(* 0 < m < 60, and otherwise '{h}h {n}m' with h = floor(m / 60) and        *)
(* n = round(m) mod 60, so that the minute component is within 0..59.      *)
(***************************************************************************)
C18_FormatDuration ==
  fn = "formatDuration" =>
    LET m == arg.minutes
    IN /\ m[1] = 0 => out = Dash
       /\ m[1] > 0 /\ m[1] < 60 * m[2] => out = NumberToString(Round(m)) \o LetterM
       /\ m[1] >= 60 * m[2] =>
            out = NumberToString(m[1] \div (60 * m[2])) \o LetterHSpace
                    \o NumberToString(Round(m) % 60) \o LetterM

\* the threshold is the 75th percentile of the open interest of the whole input
IsThreshold(v) == IsKthSmallest(v, RankOf(75, Len(trades)), 1..Len(trades), OiAt)

(***************************************************************************)
(* C19: getBestLevelForCondition computes the open-interest threshold as   *)
(* the 75th percentile of the full input list before filtering: every      *)
(* trade is tested with that one value, whatever the predicate and         *)
(* whichever trades it accepts.                                            *)
(***************************************************************************)
C19_ThresholdOfFullList ==
  fn = "getBestLevelForCondition" =>
    /\ Len(out.calls) = Len(trades)
    /\ \A c \in 1..Len(out.calls) :
         /\ out.calls[c].trade = trades[c]
         /\ IsThreshold(out.calls[c].oiThreshold)
    /\ \A c, d \in 1..Len(out.calls) : out.calls[c].oiThreshold = out.calls[d].oiThreshold

\* five trades whose threshold, 20, is below the largest open interest, 40; the
\* predicate accepts a trade and rejects another
C19_Witness ==
  /\ fn = "getBestLevelForCondition"
  /\ arg.conditionFn = "bestHighDeltaHighOI"
  /\ Len(trades) = 5
  /\ OiValues(trades) = <<10, 40, 10, 20, 10>>
  /\ out.calls[1].oiThreshold = 20
  /\ out.result # Nothing

\* the positions of the trades the predicate of the call accepts
Accepted ==
  LET v == CHOOSE w \in Range(OiValues(trades)) : IsThreshold(w)
  IN {i \in 1..Len(trades) : conditionFn(arg.conditionFn, trades[i], v)}

\* the levels that are active on at least one accepted trade
AcceptedLevels == UNION {ActiveSet(trades[i]) : i \in Accepted}

\* the row is the single-factor row of a level over the accepted trades, and no
\* level has a higher average MFE over them
IsBestRow(row) ==
  LET accepted == Accepted
      holders(l) == accepted \cap Holders(l)
  IN /\ \E i \in accepted : Holds(trades[i], row.level)
     /\ row.count = Cardinality(holders(row.level))
     /\ IsMeanOver(row.avgMfe, holders(row.level), MfeAt)
     /\ \A l \in ActiveLevelsOfInput :
          holders(l) # {} =>
            SumOver(holders(l), MfeAt) * row.avgMfe[2]
              <= row.avgMfe[1] * Cardinality(holders(l))

(***************************************************************************)
(* C20, as stated: getBestLevelForCondition returns none when the input    *)
(* list is empty or when no trade satisfies the predicate, and otherwise   *)
(* returns the single-factor row with the highest average MFE computed     *)
(* over exactly the trades that satisfy the predicate.                     *)
(***************************************************************************)
C20_RowUnlessNoneAccepted ==
  fn = "getBestLevelForCondition" =>
    IF Accepted = {} THEN out.result = Nothing
    ELSE out.result # Nothing /\ IsBestRow(out.result[1])

(***************************************************************************)
(* C20, amended: getBestLevelForCondition returns none when the input list *)
(* is empty, when no trade satisfies the predicate, or when no trade that  *)
(* satisfies it holds an active level, and otherwise returns the           *)
(* single-factor row with the highest average MFE computed over exactly    *)
(* the trades that satisfy the predicate.                                  *)
(***************************************************************************)
C20_RowUnlessNoLevelAccepted ==
  fn = "getBestLevelForCondition" =>
    IF AcceptedLevels = {} THEN out.result = Nothing
    ELSE out.result # Nothing /\ IsBestRow(out.result[1])

\* a trade is rejected whose level would otherwise win: level A averages 2 over
\* the accepted trades, level B 3, and the rejected trade holds A with MFE 3
C20_Witness ==
  /\ fn = "getBestLevelForCondition"
  /\ arg.conditionFn = "bestHighDeltaHighOI"
  /\ Accepted # {}
  /\ \E i \in 1..Len(trades) : i \notin Accepted /\ Holds(trades[i], LvA) /\ trades[i].mfe = 3
  /\ out.result # Nothing
  /\ out.result[1].level = LvB
  /\ out.result[1].avgMfe = <<3, 1>>
  /\ out.result[1].count = 1

\* what the function named by the last call returns on the list ts
ResultOn(ts) ==
  CASE fn = "calculateSingleFactorStats" -> calculateSingleFactorStats(ts)
    [] fn = "calculateSessionStats" -> calculateSessionStats(ts)
    [] fn = "calculatePairStats" -> calculatePairStats(ts)
    [] fn = "calculateHeatmapStats" -> calculateHeatmapStats(ts)
    [] fn = "calculateSessionLevelHeatmap" -> calculateSessionLevelHeatmap(ts)
    [] fn = "calculateDeltaLevelHeatmap" -> calculateDeltaLevelHeatmap(ts)
    [] fn = "getOIPercentileValue" -> getOIPercentileValue(ts, arg.percentile)
    [] fn = "getBestLevelForCondition" ->
         [result |-> getBestLevelForCondition(ts, arg.conditionFn), calls |-> ConditionCalls(ts)]

IsEmptyHeatmapData(h) ==
  h.xLabels = <<>> /\ h.yLabels = <<>> /\ h.grid = <<>> /\ h.maxMfe = FromInt(0)

(***************************************************************************)
(* C22: on an empty trade list every function of the core returns a        *)
(* neutral value: the single-factor, session and pair statistics an empty  *)
(* list, each heatmap empty labels, an empty grid and maxMfe 0,            *)
(* getOIPercentileValue 0 and getBestLevelForCondition none; a list of     *)
(* trades without any active level also gives an empty single-factor and   *)
(* pair result.                                                            *)
(***************************************************************************)
C22_NeutralOnEmptyInput ==
  /\ fn # "none" /\ trades = <<>> =>
       /\ fn \in {"calculateSingleFactorStats", "calculateSessionStats", "calculatePairStats"}
            => out = <<>>
       /\ fn \in Heatmaps => IsEmptyHeatmapData(out)
       /\ fn = "getOIPercentileValue" => out = 0
       /\ fn = "getBestLevelForCondition" => out.result = Nothing
  /\ fn \in {"calculateSingleFactorStats", "calculatePairStats"}
       /\ (\A i \in 1..Len(trades) : ActiveSet(trades[i]) = {})
       => out = <<>>

\* the entry-type heatmap of the empty list
C22_Witness ==
  /\ fn = "calculateHeatmapStats"
  /\ trades = <<>>
  /\ IsEmptyHeatmapData(out)

\* the x category of trade i in the heatmap of the last call, if it has one
HasColumn(i) == fn = "calculateHeatmapStats" => ~NoEntryType(trades[i])

ColumnOf(i) ==
  IF fn = "calculateHeatmapStats" THEN trades[i].entryType[1]
  ELSE IF fn = "calculateSessionLevelHeatmap" THEN OrElse(trades[i].session, NA)
  ELSE getDeltaCategory(trades[i].delta)

\* the (level, x category) combinations of the input
Combos ==
  UNION {{<<y, ColumnOf(i)>> : y \in ActiveSet(trades[i])} :
           i \in {j \in 1..Len(trades) : HasColumn(j)}}

\* the ordered level pairs the trades of the input contribute
ContributedPairs == UNION {Range(TradePairs(trades[i])) : i \in 1..Len(trades)}

(***************************************************************************)
(* C23: in every heatmap two different (TA level, x category) combinations *)
(* are accumulated in two different grid cells, also when a name contains  *)
(* '::'; in calculatePairStats two different level pairs never share one   *)
(* accumulator, also when a level name contains '|'.                       *)
(***************************************************************************)
C23_NoDelimiterCollision ==
  /\ fn \in Heatmaps => Len(out.grid) = Cardinality(Combos)
  /\ fn = "calculatePairStats" => Len(PairMap(trades)) = Cardinality(ContributedPairs)

\* the first position (trade, then slot) at which the level is active among the
\* trades at the positions I
FirstSeen(level, I) ==
  LET at == {<<i, k>> \in I \X (1..10) :
               k <= Len(trades[i].taLevels) /\ trades[i].taLevels[k] = level}
  IN CHOOSE p \in at : \A q \in at : p[1] < q[1] \/ (p[1] = q[1] /\ p[2] <= q[2])

\* p comes before q
Before(p, q) == p[1] < q[1] \/ (p[1] = q[1] /\ p[2] < q[2])

(***************************************************************************)
(* C26: levels with the same average MFE are kept by                       *)
(* calculateSingleFactorStats in the order in which they first appear in   *)
(* the input (trade order, then slot order), so getBestLevelForCondition   *)
(* returns the first-encountered of the levels tied for the highest        *)
(* average MFE.                                                            *)
(***************************************************************************)
C26_TiesInFirstSeenOrder ==
  /\ fn = "calculateSingleFactorStats" =>
       \A r, t \in 1..Len(out) :
         r < t /\ out[r].avgMfe = out[t].avgMfe =>
           Before(FirstSeen(out[r].level, 1..Len(trades)), FirstSeen(out[t].level, 1..Len(trades)))
  /\ fn = "getBestLevelForCondition" /\ out.result # Nothing =>
       \A l \in AcceptedLevels \ {out.result[1].level} :
         IsMeanOver(out.result[1].avgMfe, Accepted \cap Holders(l), MfeAt) =>
           Before(FirstSeen(out.result[1].level, Accepted), FirstSeen(l, Accepted))

\* levels B and A tie for the highest average and B, seen first, is returned;
\* on the list in reverse order the answer is another level
C26_Witness ==
  /\ fn = "getBestLevelForCondition"
  /\ arg.conditionFn = "acceptAll"
  /\ Len(trades) = 2
  /\ trades[1].taLevels = <<LvB, LvA>>
  /\ trades[2].taLevels = <<LvA>>
  /\ trades[1].mfe = trades[2].mfe
  /\ out.result # Nothing
  /\ out.result[1].level = LvB
  /\ getBestLevelForCondition(<<trades[2], trades[1]>>, "acceptAll")[1].level = LvA

\* v is the largest open interest of the input
IsLargestOi(v) == v \in Range(OiValues(trades)) /\ \A w \in Range(OiValues(trades)) : w <= v

(***************************************************************************)
(* C27: for every list of 1 to 4 trades the threshold of                   *)
(* getBestLevelForCondition is the largest OI of the list, so the          *)
(* predicate t.oi > threshold of the dashboard accepts no trade and the    *)
(* result is none; for every list size the threshold is one of the list's  *)
(* own OI values.                                                          *)
(***************************************************************************)
C27_SmallListThresholdIsMax ==
  fn = "getBestLevelForCondition" =>
    /\ \A c \in 1..Len(out.calls) : out.calls[c].oiThreshold \in Range(OiValues(trades))
    /\ Len(trades) \in 1..4 =>
         /\ \A c \in 1..Len(out.calls) : IsLargestOi(out.calls[c].oiThreshold)
         /\ arg.conditionFn = "bestHighDeltaHighOI" => out.result = Nothing

\* four trades, one of them with a high delta and the largest open interest
C27_Witness ==
  /\ fn = "getBestLevelForCondition"
  /\ arg.conditionFn = "bestHighDeltaHighOI"
  /\ Len(trades) = 4
  /\ OiValues(trades) = <<10, 40, 20, 10>>
  /\ getDeltaCategory(trades[2].delta) = HIGH_PLUS
  /\ out.calls[2].oiThreshold = 40
  /\ out.result = Nothing

\* the cells of the grid in row y, and in column x
CellsOfRow(y) == {c \in 1..Len(out.grid) : \E x \in Range(out.xLabels) : out.grid[c].key = CellKey(y, x)}

CellsOfColumn(x) == {c \in 1..Len(out.grid) : \E y \in Range(out.yLabels) : out.grid[c].key = CellKey(y, x)}

\* every y label has a populated cell and every grid key combines a y label
\* with an x label
RowsPopulatedAndKeysLabelled ==
  /\ \A y \in Range(out.yLabels) : CellsOfRow(y) # {}
  /\ \A c \in 1..Len(out.grid) :
       \E y \in Range(out.yLabels), x \in Range(out.xLabels) : out.grid[c].key = CellKey(y, x)

(***************************************************************************)
(* C28, as stated: in every heatmap result each label of xLabels and each  *)
(* label of yLabels has at least one populated cell in grid, and every     *)
(* grid key is the combination of a label of yLabels with a label of       *)
(* xLabels; a trade without any active TA level adds no x label.           *)
(***************************************************************************)
C28_EveryLabelPopulated ==
  fn \in Heatmaps =>
    /\ RowsPopulatedAndKeysLabelled
    /\ \A x \in Range(out.xLabels) : CellsOfColumn(x) # {}

(***************************************************************************)
(* C28, amended: in every heatmap result each label of yLabels has at      *)
(* least one populated cell in grid and every grid key is the combination  *)
(* of a label of yLabels with a label of xLabels; the labels of xLabels    *)
(* are the x categories of all the trades that have one, with or without   *)
(* an active TA level, and every active level of a trade has a populated   *)
(* cell in the column of the trade's x category.                           *)
(***************************************************************************)
C28_ColumnsOfAllTrades ==
  fn \in Heatmaps =>
    /\ RowsPopulatedAndKeysLabelled
    /\ Range(out.xLabels) = {ColumnOf(i) : i \in {j \in 1..Len(trades) : HasColumn(j)}}
    /\ \A i \in 1..Len(trades) :
         HasColumn(i) => \A y \in ActiveSet(trades[i]) : MapHas(out.grid, CellKey(y, ColumnOf(i)))

\* a trade without active level gives a column with no cell next to a column
\* that has one
C28_Witness ==
  /\ fn = "calculateHeatmapStats"
  /\ Len(trades) = 2
  /\ ActiveSet(trades[1]) = {} /\ trades[1].entryType = Some(T2)
  /\ ActiveSet(trades[2]) = {LvA} /\ trades[2].entryType = Some(T1)
  /\ out.xLabels = <<T1, T2>>
  /\ Len(out.grid) = 1

(***************************************************************************)
(* Vocabulary of the application claims.                                   *)
(***************************************************************************)
\* the trade handleSubmit hands to handleSaveTrade when nothing is awaited
SubmittedTrade == AppTrade(NewTradeId(editingTrade), tradeForm[1].strategyNames)

\* the trade the i-th awaited submit hands to handleSaveTrade
ResolvedTrade(i) ==
  AppTrade(NewTradeId(notePromises[i].initialData), notePromises[i].strategyNames)

\* the strategies of the trade that are not in the selection, in their order
NotSelected(trade, selected) ==
  LET fresh(s) == ~Includes(selected, s)
  IN SelectSeq(trade.strategyNames, fresh)

\* what the claim says of a save of the trade that finds the selection before
\* and leaves the selection after
SaveKeepsTradeVisible(trade, before, after) ==
  /\ PassesStrategyFilter(trade, after)
  /\ Len(before) > 0 => after = before \o NotSelected(trade, before)
  /\ Len(before) = 0 => after = <<>>

\* this step saves a new trade / an edit of a trade
SaveOfNew ==
  \/ handleSubmit /\ editingTrade = Nothing
  \/ \E i \in DOMAIN notePromises :
       NoteResolvedAt(i) /\ notePromises[i].initialData = Nothing

SaveOfEdit ==
  \/ handleSubmit /\ editingTrade # Nothing
  \/ \E i \in DOMAIN notePromises :
       NoteResolvedAt(i) /\ notePromises[i].initialData # Nothing

NewTradeFormMounted == tradeForm # Nothing /\ editingTrade = Nothing

(***************************************************************************)
(* C24: after any sequence of saves, edits, deletions, sample loads and    *)
(* CSV imports no two trades of the journal share an id, also when two     *)
(* rows of one imported file carry the same id.                            *)
(***************************************************************************)
C24_IdsUnique ==
  \A i, j \in DOMAIN allTrades : allTrades[i].id = allTrades[j].id => i = j

(***************************************************************************)
(* C25: after handleSaveTrade(trade) for a trade with at least one         *)
(* strategy the trade passes the strategy filter: with an active filter    *)
(* the selection becomes the selection followed by the trade's strategies  *)
(* that were not selected, and with no filter it stays empty.              *)
(***************************************************************************)
C25_SavedTradePassesFilter ==
  [][/\ handleSubmit =>
          SaveKeepsTradeVisible(SubmittedTrade, selectedStrategies, selectedStrategies')
     /\ \A i \in DOMAIN notePromises :
          NoteResolvedAt(i) =>
            SaveKeepsTradeVisible(ResolvedTrade(i), selectedStrategies, selectedStrategies')]_vars

(***************************************************************************)
(* C29: the complete callback of a CSV import only adds trades: every      *)
(* trade of the journal just before the callback is in the journal after   *)
(* it, and a trade that was in the journal when the file was selected and  *)
(* was deleted since then is not in the journal after it.                  *)
(***************************************************************************)
C29_ImportOnlyAdds ==
  [][\A i \in DOMAIN parsing :
       completeAt(i) =>
         /\ \A k \in DOMAIN allTrades : Includes(allTrades', allTrades[k])
         /\ \A k \in DOMAIN parsing[i].allTrades :
              parsing[i].allTrades[k].id \notin Ids(allTrades) =>
                parsing[i].allTrades[k].id \notin Ids(allTrades')]_vars

(***************************************************************************)
(* C30: while the new-trade form is mounted the stored draft holds the     *)
(* draft fields of the form (after opening, after every change, after a    *)
(* confirmed Discard Draft); saving a new trade removes the draft and an   *)
(* absent draft appears again only in a step that opens the new-trade      *)
(* form; a step that ends in the edit form leaves the draft as it was, and *)
(* saving an edit leaves the draft as it was.                              *)
(***************************************************************************)
C30_DraftFollowsForm ==
  /\ [](NewTradeFormMounted => draft = Some(DraftOf(tradeForm[1])))
  /\ [][SaveOfNew => draft' = Nothing]_vars
  /\ [][draft = Nothing /\ draft' # Nothing =>
          ~NewTradeFormMounted /\ NewTradeFormMounted']_vars
  /\ [][editingTrade' # Nothing => draft' = draft]_vars
  /\ [][SaveOfEdit => draft' = draft]_vars

\* a new trade entered in the form is saved and the draft is gone
C30_Witness ==
  /\ view = "dashboard"
  /\ draft = Nothing
  /\ \E i \in DOMAIN allTrades :
       allTrades[i] = AppTrade(uuidv4(1), <<LevelsOnly, OfSfp>>)


====
